---- MODULE Spec2Model ----
(***************************************************************************)
(* Model of the planning engine of eks-upgrade-planner:                    *)
(*   CompatibilityAnalyzer  (src/src/analyzer/compatibility.py)            *)
(*   UpgradePathPlanner     (src/src/planner/upgrade_path.py)              *)
(*   RiskAssessment         (src/src/planner/risk_assessment.py)           *)
(*   DeprecationAnalyzer    (src/src/analyzer/deprecation.py)              *)
(*   MigrationPlanner       (src/src/planner/migration_plan.py)            *)
(*                                                                         *)
(* A Python str is a sequence of one-character strings, so that split(),   *)
(* int() and f-string formatting are computed and not assumed.             *)
(***************************************************************************)
EXTENDS Integers, Sequences, FiniteSets, TLC

VARIABLES
    EKS_K8S_VERSIONS,   \* CompatibilityAnalyzer.EKS_K8S_VERSIONS (its key set)
    addon_data,         \* CompatibilityAnalyzer.addon_data
    ADDON_COMPATIBILITY,\* CompatibilityAnalyzer.ADDON_COMPATIBILITY
    op,                 \* the call in progress, "idle" between calls
    args,               \* the arguments of that call
    result,             \* the value it returned, or the exception it raised
    plan_inputs,        \* the plan command's objects, passed by reference to its calls
    plan_results        \* the results the plan command has collected

vars ==
    <<EKS_K8S_VERSIONS, addon_data, ADDON_COMPATIBILITY, op, args, result,
      plan_inputs, plan_results>>

\* the fields of the constructed analyzer
analyzer == <<EKS_K8S_VERSIONS, addon_data, ADDON_COMPATIBILITY>>

----------------------------------------------------------------------------
(* Bounds of the model *)

\* longest version string enumerated character by character
MaxLen == 4
\* largest major number of the enumerated canonical versions
MaxMajor == 2
\* largest minor number of the enumerated canonical versions
MaxMinor == 11
\* longest addon list
MaxAddons == 3

----------------------------------------------------------------------------
(* Python str, int() and str.split() *)

Digits == <<"0", "1", "2", "3", "4", "5", "6", "7", "8", "9">>

IsDigit(c) == \E i \in 1..10 : Digits[i] = c

DigitVal(c) == (CHOOSE i \in 1..10 : Digits[i] = c) - 1

\* str.strip() of whitespace, as int() applies it to its argument
RECURSIVE LStrip(_)
LStrip(s) == IF s # <<>> /\ Head(s) = " " THEN LStrip(Tail(s)) ELSE s

RECURSIVE RStrip(_)
RStrip(s) ==
    IF s # <<>> /\ s[Len(s)] = " " THEN RStrip(SubSeq(s, 1, Len(s) - 1)) ELSE s

Strip(s) == RStrip(LStrip(s))

HasSign(s) == s # <<>> /\ Head(s) \in {"+", "-"}

\* the digit part of an int() literal: what follows the optional sign
Unsigned(s) == IF HasSign(s) THEN Tail(s) ELSE s

\* digits with single underscores between them: digit (["_"] digit)*
DigitPartOK(b) ==
    /\ Len(b) > 0
    /\ IsDigit(b[1])
    /\ IsDigit(b[Len(b)])
    /\ \A i \in 1..Len(b) : IsDigit(b[i]) \/ b[i] = "_"
    /\ \A i \in 1..(Len(b) - 1) : ~(b[i] = "_" /\ b[i + 1] = "_")

\* int(s) does not raise ValueError
IntParses(s) == DigitPartOK(Unsigned(Strip(s)))

RECURSIVE DigitPartVal(_, _)
DigitPartVal(b, acc) ==
    IF b = <<>> THEN acc
    ELSE IF Head(b) = "_" THEN DigitPartVal(Tail(b), acc)
    ELSE DigitPartVal(Tail(b), 10 * acc + DigitVal(Head(b)))

\* int(s), for s with IntParses(s)
IntOf(s) ==
    LET t == Strip(s)
        v == DigitPartVal(Unsigned(t), 0)
    IN  IF HasSign(t) /\ Head(t) = "-" THEN 0 - v ELSE v

\* s.split(".")
RECURSIVE SplitDot(_, _, _)
SplitDot(s, cur, acc) ==
    IF s = <<>> THEN Append(acc, cur)
    ELSE IF Head(s) = "." THEN SplitDot(Tail(s), <<>>, Append(acc, cur))
    ELSE SplitDot(Tail(s), Append(cur, Head(s)), acc)

Split(s) == SplitDot(s, <<>>, <<>>)

\* str(n) of a non-negative int
RECURSIVE NatStr(_)
NatStr(n) ==
    IF n < 10 THEN <<Digits[n + 1]>>
    ELSE NatStr(n \div 10) \o <<Digits[(n % 10) + 1]>>

\* str(n), as an f-string renders an int
IntStr(n) == IF n < 0 THEN <<"-">> \o NatStr(0 - n) ELSE NatStr(n)

\* f"{major}.{minor}"
FormatVersion(major, minor) == IntStr(major) \o <<".">> \o IntStr(minor)

\* d.get(key, default) of a dict kept as a function
Get(d, key, default) == IF key \in DOMAIN d THEN d[key] ELSE default

\* the empty dict
EmptyDict == <<>>

\* None where a str may stand: a sequence no str equals
None == <<"None">>

\* a in b, for two str
IsSubstring(a, b) ==
    \E i \in 0..(Len(b) - Len(a)) : SubSeq(b, i + 1, i + Len(a)) = a

\* float(s) does not raise ValueError: whitespace stripped, an optional sign,
\* then digits, digits "." [digits] or "." digits, the digits grouped as in
\* int(). (Exponents, "inf" and "nan" need letters no enumerated string holds.)
FloatParses(s) ==
    LET parts == Split(Unsigned(Strip(s)))
    IN  \/ Len(parts) = 1 /\ DigitPartOK(parts[1])
        \/ /\ Len(parts) = 2
           /\ parts[1] = <<>> \/ DigitPartOK(parts[1])
           /\ parts[2] = <<>> \/ DigitPartOK(parts[2])
           /\ parts[1] # <<>> \/ parts[2] # <<>>

RECURSIVE Pow10(_)
Pow10(k) == IF k = 0 THEN 1 ELSE 10 * Pow10(k - 1)

\* the digits behind the decimal point of a float() literal
FractionDigits(s) ==
    LET parts == Split(Unsigned(Strip(s)))
    IN  IF Len(parts) = 2 THEN SelectSeq(parts[2], IsDigit) ELSE <<>>

\* float(s) * 10^k as an integer, for s with FloatParses(s) and at most k
\* fraction digits. A decimal of this length converts to the nearest double
\* and distinct ones to distinct doubles, so floats compare as these do.
FloatScaled(s, k) ==
    LET t == Strip(s)
        parts == Split(Unsigned(t))
        fraction == FractionDigits(s)
        v == DigitPartVal(parts[1], 0) * Pow10(k)
                 + DigitPartVal(fraction, 0) * Pow10(k - Len(fraction))
    IN  IF HasSign(t) /\ Head(t) = "-" THEN 0 - v ELSE v

\* float(a) >= float(b), for a and b with FloatParses
FloatGE(a, b) ==
    LET k == IF Len(FractionDigits(a)) >= Len(FractionDigits(b))
             THEN Len(FractionDigits(a)) ELSE Len(FractionDigits(b))
    IN  FloatScaled(a, k) >= FloatScaled(b, k)

----------------------------------------------------------------------------
(* CompatibilityAnalyzer *)

\* _validate_version_format with a major of 0 accepted
_validate_version_format_ZeroMajor(version) ==
    IF version = <<>> THEN FALSE
    ELSE LET parts == Split(version)
         IN  IF Len(parts) # 2 THEN FALSE
             ELSE IF ~IntParses(parts[1]) \/ ~IntParses(parts[2]) THEN FALSE
             ELSE IntOf(parts[1]) >= 0 /\ IntOf(parts[2]) >= 0

\* _validate_version_format(version)
_validate_version_format(version) ==
    IF version = <<>> THEN FALSE
    ELSE LET parts == Split(version)
         IN  IF Len(parts) # 2 THEN FALSE
             ELSE IF ~IntParses(parts[1]) \/ ~IntParses(parts[2]) THEN FALSE
             ELSE IntOf(parts[1]) > 0 /\ IntOf(parts[2]) >= 0

\* _parse_version(version): the (major, minor) pair, or ValueError raised
_parse_version(version) ==
    IF ~_validate_version_format(version)
    THEN [raised |-> TRUE, value |-> <<>>]
    ELSE LET parts == Split(version)
         IN  [raised |-> FALSE, value |-> <<IntOf(parts[1]), IntOf(parts[2])>>]

\* is_version_supported(eks_version), over the catalog's key set
is_version_supported(catalog, eks_version) == eks_version \in catalog

\* the reason strings of can_upgrade_directly; detail is the interpolated text
Reason(msg, detail) == [msg |-> msg, detail |-> detail]

\* CompareVersions with the consecutive step taken for a skip
CompareVersions_StepIsSkip(f, t) ==
    IF t[1] < f[1] \/ (t[1] = f[1] /\ t[2] < f[2])
    THEN <<FALSE, Reason("Cannot downgrade EKS versions", <<>>)>>
    ELSE IF t[1] = f[1] /\ t[2] = f[2]
    THEN <<TRUE, Reason("Same version (no upgrade needed)", <<>>)>>
    ELSE IF t[1] = f[1]
    THEN <<FALSE, Reason("Cannot skip minor versions in EKS upgrade", <<>>)>>
    ELSE <<FALSE, Reason("Cannot upgrade across major versions", <<>>)>>

\* CompareVersions without the check of the size of the minor step
CompareVersions_AnyStep(f, t) ==
    IF t[1] < f[1] \/ (t[1] = f[1] /\ t[2] < f[2])
    THEN <<FALSE, Reason("Cannot downgrade EKS versions", <<>>)>>
    ELSE IF t[1] = f[1] /\ t[2] = f[2]
    THEN <<TRUE, Reason("Same version (no upgrade needed)", <<>>)>>
    ELSE IF t[1] = f[1]
    THEN <<TRUE, Reason("Direct upgrade supported", <<>>)>>
    ELSE <<FALSE, Reason("Cannot upgrade across major versions", <<>>)>>

\* CompareVersions with the downgrade test on the minor numbers alone
CompareVersions_MinorOnly(f, t) ==
    IF t[2] < f[2]
    THEN <<FALSE, Reason("Cannot downgrade EKS versions", <<>>)>>
    ELSE IF t[1] = f[1] /\ t[2] = f[2]
    THEN <<TRUE, Reason("Same version (no upgrade needed)", <<>>)>>
    ELSE IF t[1] = f[1]
    THEN IF t[2] - f[2] = 1
         THEN <<TRUE, Reason("Direct upgrade supported", <<>>)>>
         ELSE <<FALSE, Reason("Cannot skip minor versions in EKS upgrade", <<>>)>>
    ELSE <<FALSE, Reason("Cannot upgrade across major versions", <<>>)>>

\* CompareVersions with the step to the first minor of the next major allowed
CompareVersions_NextMajor(f, t) ==
    IF t[1] < f[1] \/ (t[1] = f[1] /\ t[2] < f[2])
    THEN <<FALSE, Reason("Cannot downgrade EKS versions", <<>>)>>
    ELSE IF t[1] = f[1] /\ t[2] = f[2]
    THEN <<TRUE, Reason("Same version (no upgrade needed)", <<>>)>>
    ELSE IF t[1] = f[1]
    THEN IF t[2] - f[2] = 1
         THEN <<TRUE, Reason("Direct upgrade supported", <<>>)>>
         ELSE <<FALSE, Reason("Cannot skip minor versions in EKS upgrade", <<>>)>>
    ELSE IF t[1] = f[1] + 1
    THEN <<TRUE, Reason("Direct upgrade supported", <<>>)>>
    ELSE <<FALSE, Reason("Cannot upgrade across major versions", <<>>)>>

\* the comparisons of can_upgrade_directly on the parsed pairs
CompareVersions(f, t) ==
    LET from_major == f[1]
        from_minor == f[2]
        to_major == t[1]
        to_minor == t[2]
    IN  IF to_major < from_major \/ (to_major = from_major /\ to_minor < from_minor)
        THEN <<FALSE, Reason("Cannot downgrade EKS versions", <<>>)>>
        ELSE IF to_major = from_major /\ to_minor = from_minor
        THEN <<TRUE, Reason("Same version (no upgrade needed)", <<>>)>>
        ELSE IF to_major = from_major
        THEN IF to_minor - from_minor = 1
             THEN <<TRUE, Reason("Direct upgrade supported", <<>>)>>
             ELSE IF to_minor - from_minor > 1
             THEN <<FALSE, Reason("Cannot skip minor versions in EKS upgrade", <<>>)>>
             ELSE <<TRUE, Reason("Direct upgrade supported", <<>>)>>
        ELSE <<FALSE, Reason("Cannot upgrade across major versions", <<>>)>>

\* can_upgrade_directly with the catalog looked up before the format is checked
can_upgrade_directly_CatalogFirst(catalog, from_version, to_version) ==
    IF ~is_version_supported(catalog, from_version)
    THEN <<FALSE, Reason("Unsupported source version: ", from_version)>>
    ELSE IF ~is_version_supported(catalog, to_version)
    THEN <<FALSE, Reason("Unsupported target version: ", to_version)>>
    ELSE IF ~_validate_version_format(from_version)
    THEN <<FALSE, Reason("Invalid source version format: ", from_version)>>
    ELSE IF ~_validate_version_format(to_version)
    THEN <<FALSE, Reason("Invalid target version format: ", to_version)>>
    ELSE CompareVersions(_parse_version(from_version).value,
                         _parse_version(to_version).value)

\* can_upgrade_directly(from_version, to_version): the pair (can_upgrade, reason)
can_upgrade_directly(catalog, from_version, to_version) ==
    IF ~_validate_version_format(from_version)
    THEN <<FALSE, Reason("Invalid source version format: ", from_version)>>
    ELSE IF ~_validate_version_format(to_version)
    THEN <<FALSE, Reason("Invalid target version format: ", to_version)>>
    ELSE IF ~is_version_supported(catalog, from_version)
    THEN <<FALSE, Reason("Unsupported source version: ", from_version)>>
    ELSE IF ~is_version_supported(catalog, to_version)
    THEN <<FALSE, Reason("Unsupported target version: ", to_version)>>
    ELSE LET f == _parse_version(from_version)
             t == _parse_version(to_version)
         IN  IF f.raised \/ t.raised
             THEN <<FALSE, Reason("Invalid version format: ", <<>>)>>
             ELSE CompareVersions(f.value, t.value)

\* _build_addon_compatibility(): compatibility[eks_version][addon_name] is
\* [minimum, recommended], "" where the data has none
_build_addon_compatibility(data) ==
    IF "addons" \notin DOMAIN data THEN EmptyDict
    ELSE LET addons == data.addons
             versioned == {n \in DOMAIN addons : "versions" \in DOMAIN addons[n]}
             eks_versions == UNION {DOMAIN addons[n].versions : n \in versioned}
         IN  [eks_version \in eks_versions |->
                 [addon_name \in {n \in versioned : eks_version \in DOMAIN addons[n].versions} |->
                     LET version_info == addons[addon_name].versions[eks_version]
                     IN  <<Get(version_info, "minimum", <<>>),
                           Get(version_info, "recommended", <<>>)>>]]

\* compatible only when the current version is one of the two listed ones
check_addon_compatibility_ExactMatch(compatibility, addon_name, addon_version, eks_version) ==
    IF eks_version \notin DOMAIN compatibility THEN <<FALSE, None>>
    ELSE IF addon_name \notin DOMAIN compatibility[eks_version] THEN <<FALSE, None>>
    ELSE LET compatible_versions == compatibility[eks_version][addon_name]
         IN  <<\E i \in 1..Len(compatible_versions) : addon_version = compatible_versions[i],
               compatible_versions[Len(compatible_versions)]>>

\* check_addon_compatibility(addon_name, addon_version, eks_version)
check_addon_compatibility(compatibility, addon_name, addon_version, eks_version) ==
    IF eks_version \notin DOMAIN compatibility THEN <<FALSE, None>>
    ELSE IF addon_name \notin DOMAIN compatibility[eks_version] THEN <<FALSE, None>>
    ELSE LET compatible_versions == compatibility[eks_version][addon_name]
             is_compatible ==
                 \E i \in 1..Len(compatible_versions) :
                     IsSubstring(addon_version, compatible_versions[i])
             recommended ==
                 IF compatible_versions # <<>>
                 THEN compatible_versions[Len(compatible_versions)] ELSE None
         IN  <<is_compatible, recommended>>

\* the recommendation for one addon
Recommendation(compatibility, addon, target_eks_version) ==
    LET addon_name == Get(addon, "name", "None")
        addon_version == Get(addon, "version", <<>>)
        checked == check_addon_compatibility(compatibility, addon_name,
                                             addon_version, target_eks_version)
        is_compatible == checked[1]
        recommended == checked[2]
    IN  [addon_name |-> addon_name,
         current_version |-> addon_version,
         target_eks_version |-> target_eks_version,
         is_compatible |-> is_compatible,
         recommended_version |-> recommended,
         action_required |-> ~is_compatible,
         action |->
             IF ~is_compatible /\ recommended # None /\ recommended # <<>>
             THEN <<"Upgrade to ", recommended>>
             ELSE IF is_compatible THEN <<"No action required">>
             ELSE <<"Review addon compatibility manually">>]

\* get_addon_recommendations(current_addons, target_eks_version)
get_addon_recommendations(compatibility, current_addons, target_eks_version) ==
    [i \in 1..Len(current_addons) |->
        Recommendation(compatibility, current_addons[i], target_eks_version)]

\* the addon pass left out when the version check fails
validate_upgrade_path_ShortCircuit(catalog, compatibility, current_version, target_version, current_addons) ==
    LET checked == can_upgrade_directly(catalog, current_version, target_version)
        can_upgrade == checked[1]
        reason == checked[2]
        addon_recommendations ==
            IF can_upgrade
            THEN get_addon_recommendations(compatibility, current_addons, target_version)
            ELSE <<>>
        needing == SelectSeq(addon_recommendations, LAMBDA rec : rec.action_required)
    IN  [current_version |-> current_version,
         target_version |-> target_version,
         can_upgrade |-> can_upgrade,
         reason |-> reason,
         addons_compatible |-> needing = <<>>,
         addon_recommendations |-> addon_recommendations,
         blocking_issues |->
             (IF ~can_upgrade
              THEN <<[type |-> "version_incompatibility", message |-> reason]>>
              ELSE <<>>)
             \o (IF needing # <<>>
                 THEN <<[type |-> "addon_compatibility",
                         message |-> "Some addons require updates before upgrade",
                         addons |-> needing]>>
                 ELSE <<>>)]

\* validate_upgrade_path(current_version, target_version, current_addons)
validate_upgrade_path(catalog, compatibility, current_version, target_version, current_addons) ==
    LET checked == can_upgrade_directly(catalog, current_version, target_version)
        can_upgrade == checked[1]
        reason == checked[2]
        addon_recommendations ==
            get_addon_recommendations(compatibility, current_addons, target_version)
        addons_need_upgrade ==
            \E i \in 1..Len(addon_recommendations) :
                addon_recommendations[i].action_required
    IN  [current_version |-> current_version,
         target_version |-> target_version,
         can_upgrade |-> can_upgrade,
         reason |-> reason,
         addons_compatible |-> ~addons_need_upgrade,
         addon_recommendations |-> addon_recommendations,
         blocking_issues |->
             (IF ~can_upgrade
              THEN <<[type |-> "version_incompatibility", message |-> reason]>>
              ELSE <<>>)
             \o (IF addons_need_upgrade
                 THEN <<[type |-> "addon_compatibility",
                         message |-> "Some addons require updates before upgrade",
                         addons |-> SelectSeq(addon_recommendations,
                                              LAMBDA rec : rec.action_required)]>>
                 ELSE <<>>)]

----------------------------------------------------------------------------
(* UpgradePathPlanner *)

\* generate_upgrade_path with the loop ending one minor early:
\* range(current_minor + 1, target_minor)
generate_upgrade_path_StopsEarly(current_version, target_version) ==
    LET current_parts == Split(current_version)
        target_parts == Split(target_version)
    IN  IF Len(current_parts) # 2 \/ Len(target_parts) # 2
        THEN <<current_version>>
        ELSE IF \E p \in {current_parts[1], current_parts[2],
                          target_parts[1], target_parts[2]} : ~IntParses(p)
        THEN <<current_version>>
        ELSE LET current_major == IntOf(current_parts[1])
                 current_minor == IntOf(current_parts[2])
                 target_major == IntOf(target_parts[1])
                 target_minor == IntOf(target_parts[2])
             IN  IF current_major > target_major
                    \/ (current_major = target_major /\ current_minor >= target_minor)
                 THEN <<current_version>>
                 ELSE IF current_major = target_major
                 THEN <<current_version>> \o
                      [i \in 1..(target_minor - current_minor - 1) |->
                          FormatVersion(current_major, current_minor + i)]
                 ELSE <<current_version, target_version>>

\* generate_upgrade_path with the already-there test on one major only
generate_upgrade_path_SameMajorTest(current_version, target_version) ==
    LET current_parts == Split(current_version)
        target_parts == Split(target_version)
    IN  IF Len(current_parts) # 2 \/ Len(target_parts) # 2
        THEN <<current_version>>
        ELSE IF \E p \in {current_parts[1], current_parts[2],
                          target_parts[1], target_parts[2]} : ~IntParses(p)
        THEN <<current_version>>
        ELSE LET current_major == IntOf(current_parts[1])
                 current_minor == IntOf(current_parts[2])
                 target_major == IntOf(target_parts[1])
                 target_minor == IntOf(target_parts[2])
             IN  IF current_major = target_major /\ current_minor >= target_minor
                 THEN <<current_version>>
                 ELSE IF current_major = target_major
                 THEN <<current_version>> \o
                      [i \in 1..(target_minor - current_minor) |->
                          FormatVersion(current_major, current_minor + i)]
                 ELSE <<current_version, target_version>>

\* generate_upgrade_path that appends the target right after current
generate_upgrade_path_Jumps(current_version, target_version) ==
    LET current_parts == Split(current_version)
        target_parts == Split(target_version)
    IN  IF Len(current_parts) # 2 \/ Len(target_parts) # 2
        THEN <<current_version>>
        ELSE IF \E p \in {current_parts[1], current_parts[2],
                          target_parts[1], target_parts[2]} : ~IntParses(p)
        THEN <<current_version>>
        ELSE LET current_major == IntOf(current_parts[1])
                 current_minor == IntOf(current_parts[2])
                 target_major == IntOf(target_parts[1])
                 target_minor == IntOf(target_parts[2])
             IN  IF current_major > target_major
                    \/ (current_major = target_major /\ current_minor >= target_minor)
                 THEN <<current_version>>
                 ELSE <<current_version, target_version>>

\* a failed int() answered with the empty list
generate_upgrade_path_EmptyOnError(current_version, target_version) ==
    LET current_parts == Split(current_version)
        target_parts == Split(target_version)
    IN  IF Len(current_parts) # 2 \/ Len(target_parts) # 2
        THEN <<current_version>>
        ELSE IF \E p \in {current_parts[1], current_parts[2],
                          target_parts[1], target_parts[2]} : ~IntParses(p)
        THEN <<>>
        ELSE LET current_major == IntOf(current_parts[1])
                 current_minor == IntOf(current_parts[2])
                 target_major == IntOf(target_parts[1])
                 target_minor == IntOf(target_parts[2])
             IN  IF current_major > target_major
                    \/ (current_major = target_major /\ current_minor >= target_minor)
                 THEN <<current_version>>
                 ELSE IF current_major = target_major
                 THEN <<current_version>> \o
                      [i \in 1..(target_minor - current_minor) |->
                          FormatVersion(current_major, current_minor + i)]
                 ELSE <<current_version, target_version>>

\* generate_upgrade_path(current_version, target_version): the list returned.
\* Every int() failure is caught by the except clause, which returns
\* [current_version] as well.
generate_upgrade_path(current_version, target_version) ==
    LET current_parts == Split(current_version)
        target_parts == Split(target_version)
    IN  IF Len(current_parts) # 2 \/ Len(target_parts) # 2
        THEN <<current_version>>
        ELSE IF \E p \in {current_parts[1], current_parts[2],
                          target_parts[1], target_parts[2]} : ~IntParses(p)
        THEN <<current_version>>
        ELSE LET current_major == IntOf(current_parts[1])
                 current_minor == IntOf(current_parts[2])
                 target_major == IntOf(target_parts[1])
                 target_minor == IntOf(target_parts[2])
             IN  IF current_major > target_major
                    \/ (current_major = target_major /\ current_minor >= target_minor)
                 THEN <<current_version>>
                 ELSE IF current_major = target_major
                 THEN <<current_version>> \o
                      [i \in 1..(target_minor - current_minor) |->
                          FormatVersion(current_major, current_minor + i)]
                 ELSE <<current_version, target_version>>

\* priority_order.get(addon_name, 99)
DefaultPriority == 99

priority_order(addon_name) ==
    CASE addon_name = "vpc-cni" -> 1
      [] addon_name = "kube-proxy" -> 2
      [] addon_name = "coredns" -> 3
      [] addon_name = "aws-ebs-csi-driver" -> 4
      [] OTHER -> DefaultPriority

\* addon.get("name", "")
AddonName(addon) == IF "name" \in DOMAIN addon THEN addon.name ELSE ""

\* {**addon, "upgrade_priority": ..., "upgrade_timing": ...}
\* the timing bound one rank too high: aws-ebs-csi-driver goes before the upgrade
WithPriority_FourIsBefore(addon) ==
    LET priority == priority_order(AddonName(addon))
    IN  [k \in DOMAIN addon \cup {"upgrade_priority", "upgrade_timing"} |->
            IF k = "upgrade_priority" THEN priority
            ELSE IF k = "upgrade_timing"
                 THEN (IF priority <= 4 THEN "before_eks" ELSE "after_eks")
            ELSE addon[k]]

WithPriority(addon) ==
    LET priority == priority_order(AddonName(addon))
    IN  [k \in DOMAIN addon \cup {"upgrade_priority", "upgrade_timing"} |->
            IF k = "upgrade_priority" THEN priority
            ELSE IF k = "upgrade_timing"
                 THEN (IF priority <= 3 THEN "before_eks" ELSE "after_eks")
            ELSE addon[k]]

\* list.sort(key=lambda x: x["upgrade_priority"]): a stable sort, each record
\* placed behind the records whose key is not greater
\* an unstable sort: each record placed in front of the records of its own key
RECURSIVE InsertStable_BeforeEquals(_, _)
InsertStable_BeforeEquals(sorted, x) ==
    IF sorted = <<>> THEN <<x>>
    ELSE IF Head(sorted).upgrade_priority < x.upgrade_priority
    THEN <<Head(sorted)>> \o InsertStable_BeforeEquals(Tail(sorted), x)
    ELSE <<x>> \o sorted

RECURSIVE InsertStable(_, _)
InsertStable(sorted, x) ==
    IF sorted = <<>> THEN <<x>>
    ELSE IF Head(sorted).upgrade_priority <= x.upgrade_priority
    THEN <<Head(sorted)>> \o InsertStable(Tail(sorted), x)
    ELSE <<x>> \o sorted

\* the sort left out: the records stay in input order
SortByPriority_Unsorted(xs) == xs

RECURSIVE SortByPriority(_)
SortByPriority(xs) ==
    IF xs = <<>> THEN <<>>
    ELSE InsertStable(SortByPriority(SubSeq(xs, 1, Len(xs) - 1)), xs[Len(xs)])

\* determine_addon_upgrade_order(addons)
determine_addon_upgrade_order(addons) ==
    SortByPriority([i \in 1..Len(addons) |-> WithPriority(addons[i])])

----------------------------------------------------------------------------
(* UpgradePathPlanner.create_upgrade_runbook (src/planner/upgrade_path.py) *)

\* f"{addon.get('name')}": the name, or the text of None for a record without one
FormatName(addon) == IF "name" \in DOMAIN addon THEN addon.name ELSE "None"

\* a.get("upgrade_timing") == timing, over the ordered addons
WithTiming(ordered_addons, timing) ==
    SelectSeq(ordered_addons, LAMBDA a : a.upgrade_timing = timing)

\* the steps of an addon phase: f"Upgrade {name} to <goal> version", a formatted
\* string kept as its pieces
AddonSteps(timed_addons, goal) ==
    [i \in 1..Len(timed_addons) |-> <<"Upgrade ", FormatName(timed_addons[i]), goal>>]

PreUpgradePhase ==
    [phase |-> <<"Pre-Upgrade Preparation">>,
     duration |-> "2-4 hours",
     steps |-> << <<"Complete all checklist items">>,
                  <<"Backup cluster and workload data">>,
                  <<"Verify rollback plan">>,
                  <<"Communicate maintenance window">> >>]

PreEksAddonPhase(pre_eks_addons) ==
    [phase |-> <<"Critical Addon Updates (Pre-EKS)">>,
     duration |-> "30-60 minutes",
     steps |-> AddonSteps(pre_eks_addons, " to compatible version")]

ControlPlanePhase(version) ==
    [phase |-> <<"EKS Control Plane Upgrade to ", version>>,
     duration |-> "30-45 minutes",
     steps |-> << <<"Update cluster version to ", version>>,
                  <<"Wait for control plane to be active">>,
                  <<"Verify control plane health">>,
                  <<"Check API server logs">> >>]

\* a phase for every version of the path, the current one included
ControlPlanePhases_PerVersion(upgrade_path) ==
    [i \in 1..Len(upgrade_path) |-> ControlPlanePhase(upgrade_path[i])]

\* for i, version in enumerate(upgrade_path[1:], 1): one phase per version
ControlPlanePhases(upgrade_path) ==
    [i \in 1..(Len(upgrade_path) - 1) |-> ControlPlanePhase(upgrade_path[i + 1])]

NodeGroupPhase ==
    [phase |-> <<"Node Group Updates">>,
     duration |-> "1-2 hours",
     steps |-> << <<"Update node group AMI to match control plane version">>,
                  <<"Perform rolling update of nodes">>,
                  <<"Monitor pod rescheduling">>,
                  <<"Verify all nodes are ready">> >>]

PostEksAddonPhase(post_eks_addons) ==
    [phase |-> <<"Additional Addon Updates (Post-EKS)">>,
     duration |-> "20-30 minutes",
     steps |-> AddonSteps(post_eks_addons, " to recommended version")]

ValidationPhase ==
    [phase |-> <<"Post-Upgrade Validation">>,
     duration |-> "30-60 minutes",
     steps |-> << <<"Verify cluster version">>,
                  <<"Check all nodes are ready">>,
                  <<"Verify all pods are running">>,
                  <<"Test critical workloads">>,
                  <<"Review cluster logs">>,
                  <<"Validate monitoring and alerts">>,
                  <<"Run smoke tests">> >>]

\* create_upgrade_runbook(cluster_name, upgrade_path, addons, node_groups)
create_upgrade_runbook(cluster_name, upgrade_path, addons, node_groups) ==
    LET ordered_addons == determine_addon_upgrade_order(addons)
        pre_eks_addons == WithTiming(ordered_addons, "before_eks")
        post_eks_addons == WithTiming(ordered_addons, "after_eks")
    IN  [cluster_name |-> cluster_name,
         upgrade_path |-> upgrade_path,
         phases |->
             <<PreUpgradePhase>>
                 \o (IF pre_eks_addons # <<>>
                     THEN <<PreEksAddonPhase(pre_eks_addons)>> ELSE <<>>)
                 \o ControlPlanePhases(upgrade_path)
                 \o <<NodeGroupPhase>>
                 \o (IF post_eks_addons # <<>>
                     THEN <<PostEksAddonPhase(post_eks_addons)>> ELSE <<>>)
                 \o <<ValidationPhase>>]

----------------------------------------------------------------------------
(* UpgradePathPlanner.estimate_upgrade_time (src/planner/upgrade_path.py) *)

\* round(n / d) of Python 3: to the nearest integer, a tie to the even one.
\* (The ties of the estimate are quarters and halves of an hour, which a float
\* holds exactly.)
Round(n, d) ==
    LET q == n \div d
        r == n % d
    IN  IF 2 * r < d THEN q
        ELSE IF 2 * r > d THEN q + 1
        ELSE IF q % 2 = 0 THEN q ELSE q + 1

\* an upgrade counted for every version of the path
estimate_upgrade_time_PerVersion(upgrade_path, node_groups, addons) ==
    LET pre_upgrade_time == 120
        control_plane_time_per_version == 40
        node_rotation_time_per_group == 90
        addon_time == 10 * Len(addons)
        validation_time == 45
        num_upgrades == Len(upgrade_path)
        control_plane_time == control_plane_time_per_version * num_upgrades
        node_time == node_rotation_time_per_group * Len(node_groups)
        total_minutes ==
            pre_upgrade_time + control_plane_time + node_time + addon_time
                + validation_time
    IN  [breakdown |->
             [pre_upgrade |-> <<pre_upgrade_time, " minutes">>,
              control_plane_upgrades |->
                  <<control_plane_time, " minutes (", num_upgrades, " upgrades)">>,
              node_rotations |->
                  <<node_time, " minutes (", Len(node_groups), " groups)">>,
              addon_upgrades |->
                  <<addon_time, " minutes (", Len(addons), " addons)">>,
              validation |-> <<validation_time, " minutes">>],
         total_minutes |-> total_minutes,
         total_hours |-> [tenths |-> Round(total_minutes, 6)],
         recommended_window |-> <<Round(total_minutes + 60, 60), " hours">>]

\* estimate_upgrade_time(upgrade_path, node_groups, addons); total_hours,
\* round(total_minutes / 60, 1), is kept in tenths of an hour
estimate_upgrade_time(upgrade_path, node_groups, addons) ==
    LET pre_upgrade_time == 120
        control_plane_time_per_version == 40
        node_rotation_time_per_group == 90
        addon_time == 10 * Len(addons)
        validation_time == 45
        num_upgrades == Len(upgrade_path) - 1
        control_plane_time == control_plane_time_per_version * num_upgrades
        node_time == node_rotation_time_per_group * Len(node_groups)
        total_minutes ==
            pre_upgrade_time + control_plane_time + node_time + addon_time
                + validation_time
    IN  [breakdown |->
             [pre_upgrade |-> <<pre_upgrade_time, " minutes">>,
              control_plane_upgrades |->
                  <<control_plane_time, " minutes (", num_upgrades, " upgrades)">>,
              node_rotations |->
                  <<node_time, " minutes (", Len(node_groups), " groups)">>,
              addon_upgrades |->
                  <<addon_time, " minutes (", Len(addons), " addons)">>,
              validation |-> <<validation_time, " minutes">>],
         total_minutes |-> total_minutes,
         total_hours |-> [tenths |-> Round(total_minutes, 6)],
         recommended_window |-> <<Round(total_minutes + 60, 60), " hours">>]

----------------------------------------------------------------------------
(* RiskAssessment (src/planner/risk_assessment.py) *)

\* sum(xs) of a list of integers
RECURSIVE Sum(_)
Sum(xs) == IF xs = <<>> THEN 0 ELSE Head(xs) + Sum(Tail(xs))

\* sum(len(resources) for resources in deprecated_apis.values()), over the
\* keys not yet counted
RECURSIVE CountResources(_, _)
CountResources(deprecated_apis, apis) ==
    IF apis = {} THEN 0
    ELSE LET api == CHOOSE a \in apis : TRUE
         IN  Len(deprecated_apis[api]) + CountResources(deprecated_apis, apis \ {api})

\* r.get("deprecation_info", {}).get("removed_in") taken as a condition: a
\* removal version that is present and not the empty string
HasRemovedIn(r) ==
    Get(Get(r, "deprecation_info", EmptyDict), "removed_in", <<>>) # <<>>

\* assess_deprecated_api_risk(deprecated_apis)
assess_deprecated_api_risk(deprecated_apis) ==
    LET total_deprecated == CountResources(deprecated_apis, DOMAIN deprecated_apis)
        removed_apis ==
            Cardinality({api \in DOMAIN deprecated_apis :
                \E i \in 1..Len(deprecated_apis[api]) :
                    HasRemovedIn(deprecated_apis[api][i])})
    IN  [risk_level |->
             IF removed_apis > 0 THEN "CRITICAL"
             ELSE IF total_deprecated > 10 THEN "HIGH"
             ELSE IF total_deprecated > 5 THEN "MEDIUM"
             ELSE "LOW",
         total_deprecated |-> total_deprecated,
         removed_apis |-> removed_apis,
         message |->
             IF removed_apis > 0
             THEN <<removed_apis, " APIs will be removed in target version">>
             ELSE IF total_deprecated > 0
             THEN <<total_deprecated, " resources using deprecated APIs">>
             ELSE <<"No deprecated APIs found">>]

\* assess_breaking_changes_risk(breaking_changes)
assess_breaking_changes_risk(breaking_changes) ==
    IF breaking_changes = <<>>
    THEN [risk_level |-> "LOW",
          total_changes |-> 0,
          message |-> <<"No breaking changes identified">>]
    ELSE LET critical_changes ==
                 SelectSeq(breaking_changes, LAMBDA c : Get(c, "impact", "None") = "HIGH")
         IN  [risk_level |->
                  IF Len(critical_changes) >= 3 THEN "HIGH"
                  ELSE IF Len(critical_changes) >= 1 THEN "MEDIUM"
                  ELSE IF Len(breaking_changes) > 5 THEN "MEDIUM"
                  ELSE "LOW",
              total_changes |-> Len(breaking_changes),
              critical_changes |-> Len(critical_changes),
              message |-> <<Len(breaking_changes), " breaking changes, ",
                            Len(critical_changes), " critical">>]

critical_addons == {"vpc-cni", "kube-proxy", "coredns"}

\* assess_addon_compatibility_risk(addon_recommendations)
assess_addon_compatibility_risk(addon_recommendations) ==
    LET incompatible_addons ==
            SelectSeq(addon_recommendations, LAMBDA a : ~Get(a, "is_compatible", TRUE))
        critical_incompatible ==
            SelectSeq(incompatible_addons,
                      LAMBDA a : Get(a, "addon_name", "None") \in critical_addons)
    IN  IF incompatible_addons = <<>>
        THEN [risk_level |-> "LOW",
              incompatible_count |-> 0,
              message |-> <<"All addons compatible">>]
        ELSE [risk_level |->
                  IF critical_incompatible # <<>> THEN "HIGH"
                  ELSE IF Len(incompatible_addons) > 3 THEN "MEDIUM"
                  ELSE "LOW",
              incompatible_count |-> Len(incompatible_addons),
              critical_incompatible |-> Len(critical_incompatible),
              message |->
                  IF critical_incompatible # <<>>
                  THEN <<Len(critical_incompatible), " critical addons need updates">>
                  ELSE <<Len(incompatible_addons), " addons need updates">>]

\* three jumps still rated MEDIUM
assess_version_jump_risk_ThreeIsMedium(upgrade_path) ==
    LET num_jumps == Len(upgrade_path) - 1
    IN  [risk_level |->
             IF num_jumps \in {0, 1} THEN "LOW"
             ELSE IF num_jumps \in {2, 3} THEN "MEDIUM"
             ELSE "HIGH",
         version_jumps |-> num_jumps,
         message |-> <<num_jumps, " sequential upgrades required">>]

\* the versions of the path counted, not the jumps between them
assess_version_jump_risk_CountsVersions(upgrade_path) ==
    LET num_jumps == Len(upgrade_path)
    IN  [risk_level |->
             IF num_jumps = 0 THEN "LOW"
             ELSE IF num_jumps = 1 THEN "LOW"
             ELSE IF num_jumps = 2 THEN "MEDIUM"
             ELSE "HIGH",
         version_jumps |-> num_jumps,
         message |-> <<num_jumps, " sequential upgrades required">>]

\* assess_version_jump_risk(upgrade_path)
assess_version_jump_risk(upgrade_path) ==
    LET num_jumps == Len(upgrade_path) - 1
    IN  [risk_level |->
             IF num_jumps = 0 THEN "LOW"
             ELSE IF num_jumps = 1 THEN "LOW"
             ELSE IF num_jumps = 2 THEN "MEDIUM"
             ELSE "HIGH",
         version_jumps |-> num_jumps,
         message |->
             IF num_jumps = 0 THEN <<"No upgrade needed">>
             ELSE IF num_jumps = 1 THEN <<"Single version upgrade">>
             ELSE IF num_jumps = 2 THEN <<"Two version upgrades required">>
             ELSE <<num_jumps, " sequential upgrades required">>]

\* assess_cluster_size_risk(node_groups)
assess_cluster_size_risk(node_groups) ==
    LET total_nodes ==
            Sum([i \in 1..Len(node_groups) |->
                    Get(Get(node_groups[i], "scaling_config", EmptyDict), "desiredSize", 0)])
    IN  [risk_level |->
             IF total_nodes > 100 THEN "HIGH"
             ELSE IF total_nodes > 50 THEN "MEDIUM"
             ELSE IF total_nodes > 20 THEN "MEDIUM"
             ELSE "LOW",
         total_nodes |-> total_nodes,
         node_groups |-> Len(node_groups),
         message |->
             IF total_nodes > 100 THEN <<"Large cluster with ", total_nodes, " nodes">>
             ELSE IF total_nodes > 50 THEN <<"Medium cluster with ", total_nodes, " nodes">>
             ELSE IF total_nodes > 20 THEN <<"Cluster with ", total_nodes, " nodes">>
             ELSE <<"Small cluster with ", total_nodes, " nodes">>]

\* _get_risk_score(risk_level): scores.get(risk_level, 1)
_get_risk_score(risk_level) ==
    CASE risk_level = "LOW" -> 1
      [] risk_level = "MEDIUM" -> 2
      [] risk_level = "HIGH" -> 3
      [] risk_level = "CRITICAL" -> 4
      [] OTHER -> 1

\* the level of the first assessment, not of the worst
_calculate_overall_risk_First(risk_assessments) ==
    IF risk_assessments = <<>> THEN "LOW"
    ELSE Get(risk_assessments[1], "risk_level", "LOW")

\* _calculate_overall_risk(risk_assessments)
_calculate_overall_risk(risk_assessments) ==
    IF risk_assessments = <<>> THEN "LOW"
    ELSE LET scores == {_get_risk_score(Get(risk_assessments[i], "risk_level", "LOW")) :
                            i \in 1..Len(risk_assessments)}
             max_score == CHOOSE m \in scores : \A n \in scores : n <= m
         IN  CASE max_score = 1 -> "LOW"
               [] max_score = 2 -> "MEDIUM"
               [] max_score = 3 -> "HIGH"
               [] max_score = 4 -> "CRITICAL"
               [] OTHER -> "MEDIUM"

\* the per-jump time added from the first jump on
_estimate_downtime_FromFirstJump(risk_level, version_jumps, total_nodes) ==
    LET base_downtime == 15
        additional_time ==
            (IF risk_level \in {"HIGH", "CRITICAL"} THEN 30 ELSE 0)
            + (IF version_jumps >= 1 THEN 15 * version_jumps ELSE 0)
            + (IF total_nodes > 50 THEN 30 ELSE 0)
    IN  [minimum_minutes |-> base_downtime + additional_time,
         notes |-> "Control plane upgrade causes brief API unavailability"]

\* _estimate_downtime(risk_level, version_jumps, total_nodes): the minutes
_estimate_downtime(risk_level, version_jumps, total_nodes) ==
    LET base_downtime == 15
        additional_time ==
            (IF risk_level \in {"HIGH", "CRITICAL"} THEN 30 ELSE 0)
            + (IF version_jumps > 1 THEN 15 * version_jumps ELSE 0)
            + (IF total_nodes > 50 THEN 30 ELSE 0)
    IN  [minimum_minutes |-> base_downtime + additional_time,
         notes |-> "Control plane upgrade causes brief API unavailability"]

\* the list with x appended when the condition holds
AppendIf(xs, cond, x) == IF cond THEN Append(xs, x) ELSE xs

\* perform_comprehensive_assessment(cluster_info, upgrade_path, deprecated_apis,
\*     breaking_changes, addon_recommendations, node_groups)
perform_comprehensive_assessment(cluster_info, upgrade_path, deprecated_apis, breaking_changes, addon_recommendations, node_groups) ==
    LET api_risk == assess_deprecated_api_risk(deprecated_apis)
        breaking_risk == assess_breaking_changes_risk(breaking_changes)
        addon_risk == assess_addon_compatibility_risk(addon_recommendations)
        version_risk == assess_version_jump_risk(upgrade_path)
        size_risk == assess_cluster_size_risk(node_groups)
        all_assessments == <<api_risk, breaking_risk, addon_risk, version_risk, size_risk>>
        overall_risk == _calculate_overall_risk(all_assessments)
        api_high == api_risk.risk_level \in {"HIGH", "CRITICAL"}
        breaking_high == breaking_risk.risk_level \in {"MEDIUM", "HIGH"}
        addon_high == addon_risk.risk_level \in {"MEDIUM", "HIGH"}
        many_jumps == version_risk.version_jumps > 1
        size_high == size_risk.risk_level \in {"MEDIUM", "HIGH"}
    IN  [overall_risk |-> overall_risk,
         risk_score |-> _get_risk_score(overall_risk),
         individual_assessments |->
             [deprecated_apis |-> api_risk,
              breaking_changes |-> breaking_risk,
              addon_compatibility |-> addon_risk,
              version_jumps |-> version_risk,
              cluster_size |-> size_risk],
         risk_factors |->
             AppendIf(AppendIf(AppendIf(AppendIf(AppendIf(<<>>,
                 api_high, api_risk.message),
                 breaking_high, breaking_risk.message),
                 addon_high, addon_risk.message),
                 many_jumps, version_risk.message),
                 size_high, size_risk.message),
         positive_factors |->
             AppendIf(AppendIf(AppendIf(<<>>,
                 api_risk.total_deprecated = 0, "No deprecated APIs in use"),
                 addon_risk.incompatible_count = 0, "All addons compatible"),
                 version_risk.version_jumps = 1, "Single version upgrade"),
         mitigation_strategies |->
             AppendIf(AppendIf(AppendIf(AppendIf(AppendIf(<<>>,
                 api_high, "Update all deprecated API usage before upgrade"),
                 breaking_high, "Review and test all breaking changes in staging"),
                 addon_high, "Upgrade incompatible addons before EKS upgrade"),
                 many_jumps, "Plan for sequential upgrades with validation between"),
                 size_high, "Plan for extended maintenance window"),
         estimated_downtime |->
             _estimate_downtime(overall_risk, version_risk.version_jumps,
                                size_risk.total_nodes),
         rollback_required |-> overall_risk \in {"HIGH", "CRITICAL"},
         staging_test_required |-> TRUE]

----------------------------------------------------------------------------
(* DeprecationAnalyzer (src/analyzer/deprecation.py) *)

\* the removed_in a lookup falls back to
NoRemoval == <<"9", "9", "9", ".", "0">>

\* DeprecationAnalyzer.API_DEPRECATIONS: the removed_in of each API version
API_DEPRECATIONS ==
    [api_version \in {"apps/v1beta1", "apps/v1beta2", "extensions/v1beta1"} |->
        [removed_in |-> FormatVersion(1, 16)]]
    @@ [api_version \in {"networking.k8s.io/v1beta1",
                          "admissionregistration.k8s.io/v1beta1",
                          "apiextensions.k8s.io/v1beta1",
                          "storage.k8s.io/v1beta1"} |->
        [removed_in |-> FormatVersion(1, 22)]]
    @@ [api_version \in {"batch/v1beta1", "policy/v1beta1", "autoscaling/v2beta1",
                          "discovery.k8s.io/v1beta1"} |->
        [removed_in |-> FormatVersion(1, 25)]]
    @@ [api_version \in {"autoscaling/v2beta2",
                          "flowcontrol.apiserver.k8s.io/v1beta1"} |->
        [removed_in |-> FormatVersion(1, 26)]]

\* is_api_removed(api_version, k8s_version)
is_api_removed(api_version, k8s_version) ==
    IF api_version \notin DOMAIN API_DEPRECATIONS THEN FALSE
    ELSE LET deprecation_info == API_DEPRECATIONS[api_version]
             removed_in == Get(deprecation_info, "removed_in", NoRemoval)
         IN  IF ~FloatParses(k8s_version) \/ ~FloatParses(removed_in) THEN FALSE
             ELSE FloatGE(k8s_version, removed_in)

----------------------------------------------------------------------------
(* MigrationPlanner (src/planner/migration_plan.py) *)

\* the migration record of one resource
Migration(api_version, resource) ==
    LET deprecation_info == Get(resource, "deprecation_info", EmptyDict)
    IN  [resource_name |-> Get(resource, "name", "None"),
         resource_kind |-> Get(resource, "kind", "None"),
         namespace |-> Get(resource, "namespace", "None"),
         current_api |-> api_version,
         replacement_api |-> Get(deprecation_info, "replacement", "None"),
         migration_notes |-> Get(deprecation_info, "migration_notes", "None"),
         priority |-> "CRITICAL"]

\* float(target_version) >= float(removed_in), with ValueError passed over
RemovalReached(resource, target_version) ==
    LET deprecation_info == Get(resource, "deprecation_info", EmptyDict)
        removed_in == Get(deprecation_info, "removed_in", NoRemoval)
    IN  /\ FloatParses(target_version)
        /\ FloatParses(removed_in)
        /\ FloatGE(target_version, removed_in)

\* the migrations of the resources of one API, in the order of the resources
RECURSIVE MigrationsOf(_, _, _)
MigrationsOf(api_version, resources, target_version) ==
    IF resources = <<>> THEN <<>>
    ELSE (IF RemovalReached(Head(resources), target_version)
          THEN <<Migration(api_version, Head(resources))>> ELSE <<>>)
         \o MigrationsOf(api_version, Tail(resources), target_version)

\* the loop over deprecated_apis.items(): the dict is kept as the list of its
\* items, <<api_version, resources>>, in the order the loop meets them
RECURSIVE MigrationsRequired(_, _)
MigrationsRequired(items, target_version) ==
    IF items = <<>> THEN <<>>
    ELSE MigrationsOf(Head(items)[1], Head(items)[2], target_version)
         \o MigrationsRequired(Tail(items), target_version)

\* detect_migration_requirements(deprecated_apis, target_version)
detect_migration_requirements(deprecated_apis, target_version) ==
    LET migrations_required == MigrationsRequired(deprecated_apis, target_version)
        total_resources ==
            Sum([i \in 1..Len(deprecated_apis) |-> Len(deprecated_apis[i][2])])
    IN  [migrations_required |-> Len(migrations_required) > 0,
         total_resources_affected |-> total_resources,
         critical_migrations |-> Len(migrations_required),
         migrations |-> migrations_required]

\* the entry of one breaking change of HIGH impact
BreakingChangeIntervention(change) ==
    [type |-> "breaking_change",
     priority |-> "HIGH",
     description |-> Get(change, "title", "None"),
     action |-> Get(change, "action", "None"),
     estimated_time |-> "30-60 minutes",
     details |-> Get(change, "description", "None")]

\* the loop over breaking_changes: an entry for each change whose impact is HIGH
RECURSIVE BreakingChangeInterventions(_)
BreakingChangeInterventions(breaking_changes) ==
    IF breaking_changes = <<>> THEN <<>>
    ELSE (IF Get(Head(breaking_changes), "impact", "None") = "HIGH"
          THEN <<BreakingChangeIntervention(Head(breaking_changes))>> ELSE <<>>)
         \o BreakingChangeInterventions(Tail(breaking_changes))

\* the migrations counted on from the plan generated before
ApiMigrationIntervention_CountedOn(migrations) ==
    LET earlier ==
            IF plan_results # <<>> /\ plan_results["generate_migration_plan"].value # <<>>
            THEN plan_results["generate_migration_plan"].value.critical_migrations
            ELSE 0
        seen == earlier + Len(migrations)
    IN  [type |-> "api_migration",
         priority |-> "HIGH",
         description |-> <<seen, " resources need API version updates">>,
         action |-> "Update manifests and re-apply resources",
         estimated_time |-> <<seen * 5, " minutes">>]

\* the aggregate entry of the migrations
ApiMigrationIntervention(migrations) ==
    [type |-> "api_migration",
     priority |-> "HIGH",
     description |-> <<Len(migrations), " resources need API version updates">>,
     action |-> "Update manifests and re-apply resources",
     estimated_time |-> <<Len(migrations) * 5, " minutes">>]

CrdValidationIntervention ==
    [type |-> "crd_validation",
     priority |-> "MEDIUM",
     description |-> "Verify all CRDs are compatible",
     action |-> "Check CRD versions and update if needed",
     estimated_time |-> "15-30 minutes"]

\* an api_migration entry for each migration
identify_manual_intervention_points_PerMigration(migrations, breaking_changes) ==
    [i \in 1..Len(migrations) |-> ApiMigrationIntervention(<<migrations[i]>>)]
        \o BreakingChangeInterventions(breaking_changes)
        \o <<CrdValidationIntervention>>

\* identify_manual_intervention_points(migrations, breaking_changes)
identify_manual_intervention_points(migrations, breaking_changes) ==
    (IF migrations # <<>> THEN <<ApiMigrationIntervention(migrations)>> ELSE <<>>)
        \o BreakingChangeInterventions(breaking_changes)
        \o <<CrdValidationIntervention>>

\* generate_manifest_examples(migration): the two stripped f-strings, kept as
\* their pieces; a key that holds None is written "None"
generate_manifest_examples(migration) ==
    LET resource_kind == Get(migration, "resource_kind", "Deployment")
        resource_name == Get(migration, "resource_name", "example")
        namespace == Get(migration, "namespace", "default")
        current_api == Get(migration, "current_api", "apps/v1beta1")
        replacement_api == Get(migration, "replacement_api", "apps/v1")
    IN  [before |->
             <<"# BEFORE - Deprecated API\napiVersion: ", current_api,
               "\nkind: ", resource_kind,
               "\nmetadata:\n  name: ", resource_name,
               "\n  namespace: ", namespace,
               "\nspec:\n  # ... existing spec ...">>,
         after |->
             <<"# AFTER - Updated API\napiVersion: ", replacement_api,
               "\nkind: ", resource_kind,
               "\nmetadata:\n  name: ", resource_name,
               "\n  namespace: ", namespace,
               "\nspec:\n  # ... existing spec ...\n  # Note: Review for any spec changes required">>]

\* create_testing_recommendations(migrations, cluster_info)
create_testing_recommendations(migrations, cluster_info) ==
    <<[category |-> "Pre-Migration Testing",
       tests |-> <<"Backup all workload manifests",
                   "Export current resource definitions",
                   "Document current application behavior">>,
       importance |-> "CRITICAL"],
      [category |-> "Manifest Validation",
       tests |-> <<"Validate updated manifests with kubectl apply --dry-run=server",
                   "Check for deprecation warnings with kubectl",
                   "Use pluto or kubent tools to scan for deprecated APIs">>,
       importance |-> "HIGH"],
      [category |-> "Staging Environment Testing",
       tests |-> <<"Deploy updated manifests to staging cluster",
                   "Verify all pods start successfully",
                   "Test application functionality",
                   "Monitor for unexpected errors or warnings",
                   "Validate networking and service discovery">>,
       importance |-> "CRITICAL"],
      [category |-> "Rollback Testing",
       tests |-> <<"Test rollback procedure",
                   "Verify ability to restore from backups",
                   "Document rollback steps">>,
       importance |-> "HIGH"]>>
    \o (IF migrations # <<>>
        THEN <<[category |-> "API Migration Testing",
                tests |-> << <<"Test updated manifests for ", Len(migrations),
                               " affected resources">>,
                             "Verify resource spec compatibility",
                             "Check for field renames or changes">>,
                importance |-> "CRITICAL"]>>
        ELSE <<>>)

\* flag_resources_needing_recreation(migrations)
RECURSIVE flag_resources_needing_recreation(_)
flag_resources_needing_recreation(migrations) ==
    IF migrations = <<>> THEN <<>>
    ELSE LET recreation_required == {"StatefulSet", "DaemonSet"}
             migration == Head(migrations)
             resource_kind == Get(migration, "resource_kind", "None")
         IN  (IF resource_kind \in recreation_required
              THEN <<[resource_name |-> Get(migration, "resource_name", "None"),
                      resource_kind |-> resource_kind,
                      namespace |-> Get(migration, "namespace", "None"),
                      reason |-> <<resource_kind,
                                   " may require recreation for API version change">>,
                      procedure |-> <<"Export current resource definition",
                                      "Update API version in manifest",
                                      "Delete existing resource",
                                      "Recreate with updated manifest",
                                      "Verify pods are running">>,
                      risk |-> "HIGH"]>>
              ELSE <<>>)
             \o flag_resources_needing_recreation(Tail(migrations))

\* _estimate_migration_time(migration_reqs); total_hours, round(total / 60, 1),
\* is kept in tenths of an hour
_estimate_migration_time(migration_reqs) ==
    LET critical_migrations == Get(migration_reqs, "critical_migrations", 0)
        total_resources == Get(migration_reqs, "total_resources_affected", 0)
        time_per_critical == 10
        time_per_resource == 5
        testing_time == 60
        total_time ==
            (critical_migrations * time_per_critical)
                + ((total_resources - critical_migrations) * time_per_resource)
                + testing_time
    IN  [total_minutes |-> total_time,
         total_hours |-> [tenths |-> Round(total_time, 6)],
         breakdown |->
             [critical_migrations |->
                  <<critical_migrations * time_per_critical, " minutes">>,
              other_updates |->
                  <<(total_resources - critical_migrations) * time_per_resource,
                    " minutes">>,
              testing |-> <<testing_time, " minutes">>]]

\* the manifest example of one migration
ManifestExample(migration) ==
    [resource |-> <<migration.resource_kind, "/", migration.resource_name>>,
     namespace |-> migration.namespace,
     examples |-> generate_manifest_examples(migration)]

\* most manifest examples of a migration plan: migrations[:5]
ExamplesLimit == 5

\* generate_migration_plan(deprecated_apis, breaking_changes, target_version, cluster_info)
generate_migration_plan(deprecated_apis, breaking_changes, target_version, cluster_info) ==
    LET migration_reqs == detect_migration_requirements(deprecated_apis, target_version)
        migrations == migration_reqs.migrations
        shown == SubSeq(migrations, 1, IF Len(migrations) < ExamplesLimit
                                       THEN Len(migrations) ELSE ExamplesLimit)
    IN  [migration_required |-> migration_reqs.migrations_required,
         total_resources_affected |-> migration_reqs.total_resources_affected,
         critical_migrations |-> migration_reqs.critical_migrations,
         migrations |-> migrations,
         manifest_examples |-> [i \in 1..Len(shown) |-> ManifestExample(shown[i])],
         manual_interventions |->
             identify_manual_intervention_points(migrations, breaking_changes),
         testing_recommendations |->
             create_testing_recommendations(migrations, cluster_info),
         resources_needing_recreation |->
             flag_resources_needing_recreation(migrations),
         estimated_migration_time |-> _estimate_migration_time(migration_reqs)]

----------------------------------------------------------------------------
(* The inputs of the calls *)

\* characters of the strings enumerated for the format validation
Alphabet == {"0", "1", "2", ".", "x", "-", "+", " ", "_"}

StringsUpTo(n) == UNION {[1..k -> Alphabet] : k \in 0..n}

\* minor numbers below and above the step from one digit to two
Minors == (0..1) \cup (9..MaxMinor)

CanonicalVersions ==
    {FormatVersion(ma, mi) : ma \in 0..MaxMajor, mi \in Minors}

\* strings that are not "<major>.<minor>" in canonical decimal form
OddStrings ==
    {<<>>,
     <<"1">>,
     <<"1", ".", "x">>,
     <<"x", ".", "1">>,
     <<"1", ".", "9", ".", "1">>,
     <<"1", ".">>,
     <<"1", ".", "0", "9">>,
     <<"0", "1", ".", "9">>,
     <<"+", "1", ".", "1", "0">>,
     <<" ", "1", ".", "9">>,
     <<"1", ".", "1", "_", "0">>,
     <<"-", "1", ".", "1">>,
     <<"1", ".", "-", "1">>}

PlannerVersions == CanonicalVersions \cup OddStrings

\* keys a compatibility matrix may hold under "eks_versions"
CatalogKeys ==
    {FormatVersion(ma, mi) : ma \in 1..MaxMajor, mi \in 9..MaxMinor}
        \cup {<<"0", ".", "9">>, <<"0", ".", "1", "0">>, <<"0", "1", ".", "1", "0">>}

\* most keys of one catalog
MaxCatalog == 3

Catalogs == {c \in SUBSET CatalogKeys : Cardinality(c) <= MaxCatalog}

\* the catalog of the runs that do not depend on it
DefaultCatalog ==
    {FormatVersion(1, mi) : mi \in 9..MaxMinor}

CompatVersions ==
    CatalogKeys \cup {<<>>, <<"1", ".", "x">>, <<"1", ".", "9", ".", "1">>, <<"-", "1", ".", "9">>}

AddonNames ==
    {"vpc-cni", "kube-proxy", "coredns", "aws-ebs-csi-driver", "metrics-server", ""}

AddonVersions == {"v1", "v2"}

\* addon records as the scanner hands them over, with or without a name
AddonRecords ==
    [name : AddonNames, version : AddonVersions] \cup [version : AddonVersions]

AddonLists == UNION {[1..k -> AddonRecords] : k \in 0..MaxAddons}

\* the paths a runbook is written for: the generated ones
RunbookPaths ==
    {generate_upgrade_path(FormatVersion(1, 9), FormatVersion(1, mi)) :
        mi \in 9..MaxMinor}

ClusterNames == {"prod"}

\* the node groups handed to the runbook, which it does not read
RunbookNodeGroups == {<<[name |-> "ng-1"]>>}

\* most version jumps of an assessed upgrade from 1.27
MaxJumps == 3

\* the versions of the assessed upgrades: 1.27 and up, and 1.25, which lies
\* before the removal of autoscaling/v2beta2
RiskVersions ==
    {FormatVersion(1, 25)} \cup {FormatVersion(1, 27 + j) : j \in 0..MaxJumps}

\* the plans assessed: each pair of versions with the path generated for it
GeneratedPlans ==
    {[current_version |-> current_version,
      target_version |-> target_version,
      upgrade_path |-> generate_upgrade_path(current_version, target_version)] :
        current_version, target_version \in RiskVersions}

\* K8sScanner.DEPRECATED_APIS, for the APIs of the findings; an API outside the
\* table carries no removal version
DeprecationInfoOf(api_version) ==
    CASE api_version = "batch/v1beta1" ->
             [removed_in |-> FormatVersion(1, 25), replacement |-> "batch/v1"]
      [] api_version = "autoscaling/v2beta2" ->
             [removed_in |-> FormatVersion(1, 26), replacement |-> "autoscaling/v2"]
      [] api_version = "apps/v1beta1" ->
             [removed_in |-> FormatVersion(1, 16), replacement |-> "apps/v1"]
      [] OTHER -> EmptyDict

\* n resources found under one API
FoundResources(api_version, n) ==
    [i \in 1..n |-> [name |-> i, kind |-> "resource",
                      deprecation_info |-> DeprecationInfoOf(api_version)]]

\* resource counts on both sides of the thresholds of the deprecated-API risk
ThresholdCounts == {0, 5, 6, 10, 11}

\* the findings: a dict from API version to the resources found under it
DeprecatedApiFindings ==
    {[api_version \in {a \in {"batch/v1beta1", "autoscaling/v2beta2", "example.com/v1alpha1"} :
                          (a = "batch/v1beta1" /\ batch = 1)
                          \/ (a = "autoscaling/v2beta2" /\ hpa = 1)
                          \/ (a = "example.com/v1alpha1" /\ other > 0)} |->
         FoundResources(api_version,
                        IF api_version = "example.com/v1alpha1" THEN other ELSE 1)] :
        batch \in 0..1, hpa \in 0..1, other \in ThresholdCounts}

\* n copies of x
Repeat(x, n) == [i \in 1..n |-> x]

\* breaking changes: none, one or three of HIGH impact, alone or with six others
BreakingChangeLists ==
    {Repeat([impact |-> "HIGH"], high) \o Repeat([impact |-> "LOW"], low) :
        high \in {0, 1, 3}, low \in {0, 6}}

\* addon recommendations: none, a compatible one, an incompatible critical one,
\* one and four incompatible others
AddonRecommendationLists ==
    {<<>>,
     <<[addon_name |-> "vpc-cni", is_compatible |-> TRUE]>>,
     <<[addon_name |-> "vpc-cni", is_compatible |-> FALSE]>>,
     <<[addon_name |-> "metrics-server", is_compatible |-> FALSE]>>,
     Repeat([addon_name |-> "metrics-server", is_compatible |-> FALSE], 4)}

NodeGroup(name, desiredSize) ==
    [name |-> name, scaling_config |-> [desiredSize |-> desiredSize]]

\* node groups: one group on each side of the size thresholds, two groups,
\* and a group without a scaling configuration
NodeGroupLists ==
    {<<NodeGroup("ng-1", n)>> : n \in {5, 21, 51, 101}}
        \cup {<<NodeGroup("ng-1", 60), NodeGroup("ng-2", 41)>>,
              <<[name |-> "ng-1"]>>}

\* largest minor number of the Kubernetes versions checked for removals
MaxK8sMinor == 30

\* the versions checked for removals: 1.8 and up, with one and with two
\* digits in the minor number, 2.0, and strings that are no version
K8sVersions ==
    {FormatVersion(1, mi) : mi \in 8..MaxK8sMinor}
        \cup {FormatVersion(2, 0)}
        \cup {<<>>, <<"1">>, <<"1", ".", "x">>, <<"1", ".", "1", "6", ".", "1">>}

\* the API versions asked about: the catalog's, and two outside it
ApiVersions == DOMAIN API_DEPRECATIONS \cup {"apps/v1", ""}

\* most API versions among the findings of a migration check
MaxFoundApis == 2

MigrationApis ==
    {"apps/v1beta1", "batch/v1beta1", "autoscaling/v2beta2", "example.com/v1alpha1"}

\* the findings of a migration check: the items of the dict, one or two
\* resources under each API version, no API version twice
MigrationFindings ==
    {items \in UNION {[1..k -> {<<api_version, FoundResources(api_version, n)>> :
                                   api_version \in MigrationApis, n \in 1..2}] :
                          k \in 0..MaxFoundApis} :
        \A i, j \in 1..Len(items) : i # j => items[i][1] # items[j][1]}

\* the addon versions the catalog lists for an EKS version
CatalogMinimum(eks_version) ==
    IF eks_version = FormatVersion(1, 10)
    THEN <<"v", "1", ".", "8">> ELSE <<"v", "1", ".", "9">>

CatalogRecommended(eks_version) ==
    IF eks_version = FormatVersion(1, 10)
    THEN <<"v", "1", ".", "9">> ELSE <<"v", "1", ".", "1", "0">>

\* what the addon data holds for an addon under an EKS version
VersionInfo(kind, eks_version) ==
    CASE kind = "full" ->
             [minimum |-> CatalogMinimum(eks_version),
              recommended |-> CatalogRecommended(eks_version)]
      [] kind = "no_minimum" -> [recommended |-> CatalogRecommended(eks_version)]
      [] kind = "no_recommended" -> [minimum |-> CatalogMinimum(eks_version)]

InfoKinds == {"absent", "full", "no_minimum", "no_recommended"}

\* the entry of coredns: any of the kinds under 1.10 and under 1.11
CorednsInfo(kind10, kind11) ==
    [versions |->
        [eks_version \in {v \in {FormatVersion(1, 10), FormatVersion(1, 11)} :
                             (v = FormatVersion(1, 10) /\ kind10 # "absent")
                             \/ (v = FormatVersion(1, 11) /\ kind11 # "absent")} |->
            VersionInfo(IF eks_version = FormatVersion(1, 10) THEN kind10 ELSE kind11,
                        eks_version)]]

\* the entry of vpc-cni: under 1.11 only, or without a "versions" key
VpcCniInfo(kind) ==
    IF kind = "full"
    THEN [versions |-> [eks_version \in {FormatVersion(1, 11)} |->
                            VersionInfo("full", eks_version)]]
    ELSE [description |-> "VPC CNI"]

\* the addon data an analyzer is constructed with
AddonDataChoices ==
    {[addons |-> [addon_name \in {"coredns", "vpc-cni"} |->
                     IF addon_name = "coredns" THEN CorednsInfo(kind10, kind11)
                     ELSE VpcCniInfo(kind)]] :
        kind10 \in InfoKinds, kind11 \in InfoKinds, kind \in {"full", "unversioned"}}
    \cup {[source |-> "custom"]}

\* the addon data of the runs that do not depend on it
DefaultAddonData ==
    [addons |-> [addon_name \in {"coredns", "vpc-cni"} |->
                    IF addon_name = "coredns" THEN CorednsInfo("full", "full")
                    ELSE VpcCniInfo("full")]]

\* the addon names asked about: in the data, outside it, and None
CheckedAddonNames == {"coredns", "vpc-cni", "kube-proxy", "None"}

\* the current addon versions asked about: the catalog's, parts of them, others
CheckedAddonVersions ==
    {<<>>,
     <<"v", "1", ".", "8">>,
     <<"v", "1", ".", "9">>,
     <<"v", "1", ".", "1", "0">>,
     <<"v", "1", ".", "1">>,
     <<"1", ".", "9">>,
     <<"v", "2", ".", "0">>}

\* the EKS versions asked about: in the data, outside it, and no version
CheckedEksVersions ==
    {FormatVersion(1, 10), FormatVersion(1, 11), FormatVersion(1, 12), <<>>}

\* longest addon list of a validated upgrade
MaxValidated == 2

\* the addons of a validated upgrade, with or without a name or a version
ValidatedAddons ==
    [name : {"coredns", "vpc-cni", "kube-proxy"},
     version : {<<"v", "1", ".", "8">>, <<"v", "1", ".", "1", "0">>}]
        \cup {[version |-> <<"v", "1", ".", "9">>], [name |-> "coredns"]}

ValidatedAddonLists == UNION {[1..k -> ValidatedAddons] : k \in 0..MaxValidated}

\* the upgrades validated: a step, a skip, no change, a downgrade, a target
\* outside the catalog and one that is no version
ValidatedCurrent == {FormatVersion(1, 9), FormatVersion(1, 10), FormatVersion(1, 11)}

ValidatedTarget ==
    {FormatVersion(1, 10), FormatVersion(1, 11), FormatVersion(2, 0),
     <<"1", ".", "x">>}

\* the migrations handed on by detect_migration_requirements for target 1.26
DetectedMigrations ==
    {MigrationsRequired(items, FormatVersion(1, 26)) : items \in MigrationFindings}

\* longest breaking-change list of an intervention check
MaxChanges == 2

\* breaking changes told apart by their titles: two of HIGH impact, one of
\* MEDIUM impact and one without an impact
TitledChanges ==
    {[impact |-> "HIGH", title |-> "a", action |-> "x", description |-> "d"],
     [impact |-> "HIGH", title |-> "b"],
     [impact |-> "MEDIUM", title |-> "c"],
     [title |-> "e"]}

TitledChangeLists == UNION {[1..k -> TitledChanges] : k \in 0..MaxChanges}

\* longest node-group list of a time estimate
MaxNodeGroups == 2

\* the node groups of a time estimate, of which only the number counts
EstimateNodeGroupLists ==
    UNION {[1..k -> {NodeGroup("ng-1", 5), [name |-> "ng-2"]}] : k \in 0..MaxNodeGroups}

\* the addons of a time estimate, of which only the number counts
EstimateAddonLists ==
    UNION {[1..k -> {[name |-> "coredns", version |-> "v1"], [version |-> "v2"]}] :
              k \in 0..MaxAddons}

\* the addons of a planned cluster: out of upgrade order, and records without
\* a name or without a version
PlanAddonLists ==
    {<<[name |-> "coredns", version |-> <<"v", "1", ".", "1", "0">>],
       [name |-> "vpc-cni", version |-> <<"v", "1", ".", "8">>]>>,
     <<[version |-> <<"v", "1", ".", "9">>], [name |-> "kube-proxy"]>>}

\* its node groups: with a desired size, and without a scaling configuration
PlanNodeGroupLists == {<<NodeGroup("ng-1", 5)>>, <<[name |-> "ng-2"]>>}

\* its findings, the items of the dict in order, with its breaking changes:
\* none; complete findings, one of an API removed in 1.10; a finding with
\* nothing but its deprecation info
PlanFacts ==
    LET PlanDeprecationInfo ==
            [removed_in |-> FormatVersion(1, 10), replacement |-> "apps/v1"]
    IN
    {[deprecated_apis |-> <<>>, breaking_changes |-> <<>>],
     [deprecated_apis |->
          << <<"apps/v1beta2",
               <<[name |-> "db", kind |-> "StatefulSet", namespace |-> "default",
                  deprecation_info |-> PlanDeprecationInfo],
                 [name |-> "web", kind |-> "Deployment", namespace |-> "default",
                  deprecation_info |-> EmptyDict]>> >> >>,
      breaking_changes |->
          <<[impact |-> "MEDIUM", title |-> "c"],
            [impact |-> "HIGH", title |-> "a", action |-> "x", description |-> "d"]>>],
     [deprecated_apis |->
          << <<"example.com/v1alpha1", FoundResources("example.com/v1alpha1", 1)>>,
             <<"apps/v1beta2", <<[deprecation_info |-> PlanDeprecationInfo]>> >> >>,
      breaking_changes |-> <<[title |-> "e"]>>]}

\* the objects of a plan command: the cluster snapshot and the facts found
PlanInputs ==
    {[cluster |-> "prod",
      current_version |-> FormatVersion(1, 9),
      target_version |-> FormatVersion(1, 11),
      addons |-> addons,
      node_groups |-> node_groups,
      deprecated_apis |-> facts.deprecated_apis,
      breaking_changes |-> facts.breaking_changes] :
        addons \in PlanAddonLists, node_groups \in PlanNodeGroupLists,
        facts \in PlanFacts}

\* the calls of a plan command whose results it collects
PlanSteps ==
    {"validate_upgrade_path", "get_addon_recommendations", "generate_upgrade_path",
     "determine_addon_upgrade_order", "create_upgrade_runbook",
     "estimate_upgrade_time", "perform_comprehensive_assessment",
     "generate_migration_plan"}

----------------------------------------------------------------------------
(* The state machine: a constructed analyzer and planner, and the calls *)

NoResult == [raised |-> FALSE, value |-> <<>>]

Returned(v) == [raised |-> FALSE, value |-> v]

\* a plan command on a constructed analyzer, before its first call
InitPlan ==
    /\ EKS_K8S_VERSIONS = DefaultCatalog
    /\ addon_data = DefaultAddonData
    /\ ADDON_COMPATIBILITY = _build_addon_compatibility(addon_data)
    /\ op = "idle"
    /\ args = <<>>
    /\ result = NoResult
    /\ plan_inputs \in PlanInputs
    /\ plan_results = [step \in PlanSteps |-> NoResult]

\* CompatibilityAnalyzer.__init__ with a compatibility matrix
Init ==
    /\ EKS_K8S_VERSIONS \in Catalogs
    /\ addon_data = DefaultAddonData
    /\ ADDON_COMPATIBILITY = _build_addon_compatibility(addon_data)
    /\ op = "idle"
    /\ args = <<>>
    /\ result = NoResult
    /\ plan_inputs = EmptyDict
    /\ plan_results = EmptyDict

\* the same, for the runs that do not depend on the catalog
InitDefault ==
    /\ EKS_K8S_VERSIONS = DefaultCatalog
    /\ addon_data = DefaultAddonData
    /\ ADDON_COMPATIBILITY = _build_addon_compatibility(addon_data)
    /\ op = "idle"
    /\ args = <<>>
    /\ result = NoResult
    /\ plan_inputs = EmptyDict
    /\ plan_results = EmptyDict

\* CompatibilityAnalyzer.__init__ with addon data
InitAddons ==
    /\ EKS_K8S_VERSIONS = DefaultCatalog
    /\ addon_data \in AddonDataChoices
    /\ ADDON_COMPATIBILITY = _build_addon_compatibility(addon_data)
    /\ op = "idle"
    /\ args = <<>>
    /\ result = NoResult
    /\ plan_inputs = EmptyDict
    /\ plan_results = EmptyDict

ValidateVersionFormat(version) ==
    /\ op = "idle"
    /\ op' = "_validate_version_format"
    /\ args' = <<version>>
    /\ result' = Returned(_validate_version_format(version))
    /\ UNCHANGED <<analyzer, plan_inputs, plan_results>>

ParseVersion(version) ==
    /\ op = "idle"
    /\ op' = "_parse_version"
    /\ args' = <<version>>
    /\ result' = _parse_version(version)
    /\ UNCHANGED <<analyzer, plan_inputs, plan_results>>

CanUpgradeDirectly(from_version, to_version) ==
    /\ op = "idle"
    /\ op' = "can_upgrade_directly"
    /\ args' = <<from_version, to_version>>
    /\ result' = Returned(can_upgrade_directly(EKS_K8S_VERSIONS, from_version, to_version))
    /\ UNCHANGED <<analyzer, plan_inputs, plan_results>>

GenerateUpgradePath(current_version, target_version) ==
    /\ op = "idle"
    /\ op' = "generate_upgrade_path"
    /\ args' = <<current_version, target_version>>
    /\ result' = Returned(generate_upgrade_path(current_version, target_version))
    /\ UNCHANGED <<analyzer, plan_inputs, plan_results>>

DetermineAddonUpgradeOrder(addons) ==
    /\ op = "idle"
    /\ op' = "determine_addon_upgrade_order"
    /\ args' = <<addons>>
    /\ result' = Returned(determine_addon_upgrade_order(addons))
    /\ UNCHANGED <<analyzer, plan_inputs, plan_results>>

CreateUpgradeRunbook(cluster_name, upgrade_path, addons, node_groups) ==
    /\ op = "idle"
    /\ op' = "create_upgrade_runbook"
    /\ args' = <<cluster_name, upgrade_path, addons, node_groups>>
    /\ result' = Returned(create_upgrade_runbook(cluster_name, upgrade_path,
                                                 addons, node_groups))
    /\ UNCHANGED <<analyzer, plan_inputs, plan_results>>

\* the plan command's path and risk assessment: generate_upgrade_path (in
\* GeneratedPlans), then perform_comprehensive_assessment on the generated path
PlanRiskAssessment(plan, deprecated_apis, breaking_changes, addon_recs, node_groups) ==
    /\ op = "idle"
    /\ op' = "perform_comprehensive_assessment"
    /\ args' = <<plan.current_version, plan.target_version, deprecated_apis,
                 breaking_changes, addon_recs, node_groups>>
    /\ LET cluster_info == [cluster |-> [version |-> plan.current_version],
                            node_groups |-> node_groups]
       IN  result' = Returned(
               [upgrade_path |-> plan.upgrade_path,
                comprehensive_risk |->
                    perform_comprehensive_assessment(cluster_info, plan.upgrade_path,
                        deprecated_apis, breaking_changes, addon_recs, node_groups)])
    /\ UNCHANGED <<analyzer, plan_inputs, plan_results>>

IsApiRemoved(api_version, k8s_version) ==
    /\ op = "idle"
    /\ op' = "is_api_removed"
    /\ args' = <<api_version, k8s_version>>
    /\ result' = Returned(is_api_removed(api_version, k8s_version))
    /\ UNCHANGED <<analyzer, plan_inputs, plan_results>>

DetectMigrationRequirements(deprecated_apis, target_version) ==
    /\ op = "idle"
    /\ op' = "detect_migration_requirements"
    /\ args' = <<deprecated_apis, target_version>>
    /\ result' = Returned(detect_migration_requirements(deprecated_apis, target_version))
    /\ UNCHANGED <<analyzer, plan_inputs, plan_results>>

CheckAddonCompatibility(addon_name, addon_version, eks_version) ==
    /\ op = "idle"
    /\ op' = "check_addon_compatibility"
    /\ args' = <<addon_name, addon_version, eks_version>>
    /\ result' = Returned(check_addon_compatibility(ADDON_COMPATIBILITY, addon_name,
                                                    addon_version, eks_version))
    /\ UNCHANGED <<analyzer, plan_inputs, plan_results>>

ValidateUpgradePath(current_version, target_version, current_addons) ==
    /\ op = "idle"
    /\ op' = "validate_upgrade_path"
    /\ args' = <<current_version, target_version, current_addons>>
    /\ result' = Returned(validate_upgrade_path(EKS_K8S_VERSIONS, ADDON_COMPATIBILITY,
                               current_version, target_version, current_addons))
    /\ UNCHANGED <<analyzer, plan_inputs, plan_results>>

IdentifyManualInterventionPoints(migrations, breaking_changes) ==
    /\ op = "idle"
    /\ op' = "identify_manual_intervention_points"
    /\ args' = <<migrations, breaking_changes>>
    /\ result' = Returned(identify_manual_intervention_points(migrations, breaking_changes))
    /\ UNCHANGED <<analyzer, plan_inputs, plan_results>>

EstimateUpgradeTime(upgrade_path, node_groups, addons) ==
    /\ op = "idle"
    /\ op' = "estimate_upgrade_time"
    /\ args' = <<upgrade_path, node_groups, addons>>
    /\ result' = Returned(estimate_upgrade_time(upgrade_path, node_groups, addons))
    /\ UNCHANGED <<analyzer, plan_inputs, plan_results>>

\* The calls of the plan command (cli.py, plan): each takes the command's
\* objects by reference and the results collected before it.

\* the findings as the dict they are
DictOfItems(items) ==
    [api_version \in {items[i][1] : i \in 1..Len(items)} |->
        items[CHOOSE i \in 1..Len(items) : items[i][1] = api_version][2]]

\* the result collected from a call, once it has been made
Collected(step) == plan_results[step].value

Made(step) == plan_results[step] # NoResult

\* the caller's addon list after an ordering
\* sorted and annotated where it stands
AddonsAfterOrdering_InPlace(addons) ==
    determine_addon_upgrade_order(addons)

\* the caller's addon list after determine_addon_upgrade_order(addons): the
\* loop puts a new dict {**addon, ...} for each addon into a list of its own,
\* and sorts that list
AddonsAfterOrdering(addons) ==
    addons

PlanValidateUpgradePath ==
    /\ op = "idle"
    /\ op' = "validate_upgrade_path"
    /\ args' = <<plan_inputs.current_version, plan_inputs.target_version,
                 plan_inputs.addons>>
    /\ result' = Returned(validate_upgrade_path(EKS_K8S_VERSIONS, ADDON_COMPATIBILITY,
                               plan_inputs.current_version, plan_inputs.target_version,
                               plan_inputs.addons))
    /\ UNCHANGED <<analyzer, plan_inputs, plan_results>>

PlanGetAddonRecommendations ==
    /\ op = "idle"
    /\ op' = "get_addon_recommendations"
    /\ args' = <<plan_inputs.addons, plan_inputs.target_version>>
    /\ result' = Returned(get_addon_recommendations(ADDON_COMPATIBILITY,
                               plan_inputs.addons, plan_inputs.target_version))
    /\ UNCHANGED <<analyzer, plan_inputs, plan_results>>

PlanGenerateUpgradePath ==
    /\ op = "idle"
    /\ op' = "generate_upgrade_path"
    /\ args' = <<plan_inputs.current_version, plan_inputs.target_version>>
    /\ result' = Returned(generate_upgrade_path(plan_inputs.current_version,
                                                plan_inputs.target_version))
    /\ UNCHANGED <<analyzer, plan_inputs, plan_results>>

PlanDetermineAddonUpgradeOrder ==
    /\ op = "idle"
    /\ op' = "determine_addon_upgrade_order"
    /\ args' = <<plan_inputs.addons>>
    /\ result' = Returned(determine_addon_upgrade_order(plan_inputs.addons))
    /\ plan_inputs' =
           [plan_inputs EXCEPT !.addons = AddonsAfterOrdering(plan_inputs.addons)]
    /\ UNCHANGED <<analyzer, plan_results>>

\* create_upgrade_runbook orders the addons by determine_addon_upgrade_order
PlanCreateUpgradeRunbook ==
    /\ op = "idle"
    /\ Made("generate_upgrade_path")
    /\ op' = "create_upgrade_runbook"
    /\ args' = <<plan_inputs.cluster, Collected("generate_upgrade_path"),
                 plan_inputs.addons, plan_inputs.node_groups>>
    /\ result' = Returned(create_upgrade_runbook(plan_inputs.cluster,
                               Collected("generate_upgrade_path"),
                               plan_inputs.addons, plan_inputs.node_groups))
    /\ plan_inputs' =
           [plan_inputs EXCEPT !.addons = AddonsAfterOrdering(plan_inputs.addons)]
    /\ UNCHANGED <<analyzer, plan_results>>

PlanEstimateUpgradeTime ==
    /\ op = "idle"
    /\ Made("generate_upgrade_path")
    /\ op' = "estimate_upgrade_time"
    /\ args' = <<Collected("generate_upgrade_path"), plan_inputs.node_groups,
                 plan_inputs.addons>>
    /\ result' = Returned(estimate_upgrade_time(Collected("generate_upgrade_path"),
                               plan_inputs.node_groups, plan_inputs.addons))
    /\ UNCHANGED <<analyzer, plan_inputs, plan_results>>

PlanPerformComprehensiveAssessment ==
    /\ op = "idle"
    /\ Made("generate_upgrade_path")
    /\ Made("get_addon_recommendations")
    /\ op' = "perform_comprehensive_assessment"
    /\ args' = <<Collected("generate_upgrade_path"), plan_inputs.deprecated_apis,
                 plan_inputs.breaking_changes, Collected("get_addon_recommendations"),
                 plan_inputs.node_groups>>
    /\ LET cluster_info == [cluster |-> [version |-> plan_inputs.current_version],
                            node_groups |-> plan_inputs.node_groups,
                            addons |-> plan_inputs.addons]
       IN  result' = Returned(
               perform_comprehensive_assessment(cluster_info,
                   Collected("generate_upgrade_path"),
                   DictOfItems(plan_inputs.deprecated_apis),
                   plan_inputs.breaking_changes,
                   Collected("get_addon_recommendations"),
                   plan_inputs.node_groups))
    /\ UNCHANGED <<analyzer, plan_inputs, plan_results>>

PlanGenerateMigrationPlan ==
    /\ op = "idle"
    /\ op' = "generate_migration_plan"
    /\ args' = <<plan_inputs.deprecated_apis, plan_inputs.breaking_changes,
                 plan_inputs.target_version>>
    /\ LET cluster_info == [cluster |-> [version |-> plan_inputs.current_version],
                            node_groups |-> plan_inputs.node_groups,
                            addons |-> plan_inputs.addons]
       IN  result' = Returned(
               generate_migration_plan(plan_inputs.deprecated_apis,
                   plan_inputs.breaking_changes, plan_inputs.target_version,
                   cluster_info))
    /\ UNCHANGED <<analyzer, plan_inputs, plan_results>>

\* the command keeps the value returned; the next call may start
CollectResult ==
    /\ op \in PlanSteps
    /\ op' = "idle"
    /\ args' = <<>>
    /\ result' = NoResult
    /\ plan_results' = [plan_results EXCEPT ![op] = result]
    /\ UNCHANGED <<analyzer, plan_inputs>>

\* the caller takes the returned value (or the exception); the next call may start
TakeResult ==
    /\ op # "idle"
    /\ op' = "idle"
    /\ args' = <<>>
    /\ result' = NoResult
    /\ UNCHANGED <<analyzer, plan_inputs, plan_results>>

\* a call starts only between calls
Idle == op = "idle"

\* version-format validation and parsing, over every short string
NextParse ==
    \/ Idle /\ \E version \in StringsUpTo(MaxLen) : ValidateVersionFormat(version)
    \/ Idle /\ \E version \in StringsUpTo(MaxLen) : ParseVersion(version)
    \/ TakeResult

SpecParse == InitDefault /\ [][NextParse]_vars

\* the analyzer's direct-upgrade check, over every small catalog
NextCompat ==
    \/ Idle /\ \E from_version, to_version \in CompatVersions :
                   CanUpgradeDirectly(from_version, to_version)
    \/ TakeResult

SpecCompat == Init /\ [][NextCompat]_vars

\* the planner's path generation, addon ordering, runbook and time estimate
NextPlanner ==
    \/ Idle /\ \E current_version, target_version \in PlannerVersions :
                   GenerateUpgradePath(current_version, target_version)
    \/ Idle /\ \E addons \in AddonLists : DetermineAddonUpgradeOrder(addons)
    \/ Idle /\ \E cluster_name \in ClusterNames, upgrade_path \in RunbookPaths,
                   addons \in AddonLists, node_groups \in RunbookNodeGroups :
                   CreateUpgradeRunbook(cluster_name, upgrade_path, addons, node_groups)
    \/ Idle /\ \E upgrade_path \in RunbookPaths,
                   node_groups \in EstimateNodeGroupLists,
                   addons \in EstimateAddonLists :
                   EstimateUpgradeTime(upgrade_path, node_groups, addons)
    \/ TakeResult

SpecPlanner == InitDefault /\ [][NextPlanner]_vars

\* the risk assessment of planned upgrades
NextRisk ==
    \/ Idle /\ \E plan \in GeneratedPlans,
                   deprecated_apis \in DeprecatedApiFindings,
                   breaking_changes \in BreakingChangeLists,
                   addon_recs \in AddonRecommendationLists,
                   node_groups \in NodeGroupLists :
                   PlanRiskAssessment(plan, deprecated_apis, breaking_changes,
                                      addon_recs, node_groups)
    \/ TakeResult

SpecRisk == InitDefault /\ [][NextRisk]_vars

\* the removal checks of the deprecation analyzer and the migration planner,
\* and the planner's intervention points
NextDeprecation ==
    \/ Idle /\ \E api_version \in ApiVersions, k8s_version \in K8sVersions :
                   IsApiRemoved(api_version, k8s_version)
    \/ Idle /\ \E deprecated_apis \in MigrationFindings, target_version \in K8sVersions :
                   DetectMigrationRequirements(deprecated_apis, target_version)
    \/ Idle /\ \E migrations \in DetectedMigrations, breaking_changes \in TitledChangeLists :
                   IdentifyManualInterventionPoints(migrations, breaking_changes)
    \/ TakeResult

SpecDeprecation == InitDefault /\ [][NextDeprecation]_vars

\* the calls of a plan command, in any order and any number of times
NextPlan ==
    \/ Idle /\ PlanValidateUpgradePath
    \/ Idle /\ PlanGetAddonRecommendations
    \/ Idle /\ PlanGenerateUpgradePath
    \/ Idle /\ PlanDetermineAddonUpgradeOrder
    \/ Idle /\ PlanCreateUpgradeRunbook
    \/ Idle /\ PlanEstimateUpgradeTime
    \/ Idle /\ PlanPerformComprehensiveAssessment
    \/ Idle /\ PlanGenerateMigrationPlan
    \/ CollectResult

SpecPlan == InitPlan /\ [][NextPlan]_vars

\* the analyzer's addon check and upgrade validation, over the addon data
NextAddons ==
    \/ Idle /\ \E addon_name \in CheckedAddonNames,
                   addon_version \in CheckedAddonVersions,
                   eks_version \in CheckedEksVersions :
                   CheckAddonCompatibility(addon_name, addon_version, eks_version)
    \/ Idle /\ \E current_version \in ValidatedCurrent,
                   target_version \in ValidatedTarget,
                   current_addons \in ValidatedAddonLists :
                   ValidateUpgradePath(current_version, target_version, current_addons)
    \/ TakeResult

SpecAddons == InitAddons /\ [][NextAddons]_vars

----------------------------------------------------------------------------
(* Vocabulary of the properties *)

\* a Version: a string the analyzer parses to a (major, minor) pair
IsVersion(v) == _validate_version_format(v)

Major(v) == _parse_version(v).value[1]

Minor(v) == _parse_version(v).value[2]

\* v is lower than w in (major, minor) order
Lower(v, w) ==
    Major(v) < Major(w) \/ (Major(v) = Major(w) /\ Minor(v) < Minor(w))

Supported(v) == v \in EKS_K8S_VERSIONS

\* the result of the can_upgrade_directly call in progress
Allowed == result.value[1]

ReasonMsg == result.value[2].msg

MentionsSkip == ReasonMsg = "Cannot skip minor versions in EKS upgrade"

MentionsDowngrade == ReasonMsg = "Cannot downgrade EKS versions"

MentionsCrossMajor == ReasonMsg = "Cannot upgrade across major versions"

InvalidFormatReason ==
    ReasonMsg \in {"Invalid source version format: ",
                   "Invalid target version format: ",
                   "Invalid version format: "}

UnsupportedReason ==
    ReasonMsg \in {"Unsupported source version: ", "Unsupported target version: "}

\* a can_upgrade_directly call on two supported Versions has returned
DirectCheckOfSupported ==
    /\ op = "can_upgrade_directly"
    /\ IsVersion(args[1]) /\ IsVersion(args[2])
    /\ Supported(args[1]) /\ Supported(args[2])

----------------------------------------------------------------------------
(* can_upgrade_directly *)

\* C1: for supported versions v, w on the same major with w.minor = v.minor + 1,
\* can_upgrade_directly(v, w) returns allowed = true.
C1_ConsecutiveAllowed ==
    (/\ DirectCheckOfSupported
     /\ Major(args[1]) = Major(args[2])
     /\ Minor(args[2]) = Minor(args[1]) + 1)
        => Allowed = TRUE

C1_Witness ==
    /\ DirectCheckOfSupported
    /\ Major(args[1]) = Major(args[2])
    /\ Minor(args[1]) = 9
    /\ Minor(args[2]) = 10
    /\ Allowed = TRUE

\* C2: for supported versions v, w on the same major with w.minor - v.minor > 1,
\* can_upgrade_directly(v, w) returns allowed = false and a reason that
\* mentions skipping versions.
C2_SkipRejected ==
    (/\ DirectCheckOfSupported
     /\ Major(args[1]) = Major(args[2])
     /\ Minor(args[2]) - Minor(args[1]) > 1)
        => (Allowed = FALSE /\ MentionsSkip)

C2_Witness ==
    /\ DirectCheckOfSupported
    /\ Major(args[1]) = Major(args[2])
    /\ Minor(args[2]) - Minor(args[1]) = 2
    /\ Allowed = FALSE
    /\ MentionsSkip

\* C3 as stated: for all version pairs (v, w) with w lower than v, supported
\* or not, can_upgrade_directly(v, w) returns allowed = false and a reason
\* that mentions downgrade.
C3_DowngradeOfAnyVersions ==
    (/\ op = "can_upgrade_directly"
     /\ IsVersion(args[1]) /\ IsVersion(args[2])
     /\ Lower(args[2], args[1]))
        => (Allowed = FALSE /\ MentionsDowngrade)

\* C3 amended: for all supported version pairs (v, w) with w lower than v,
\* can_upgrade_directly(v, w) returns allowed = false and a reason that
\* mentions downgrade; when one of them is not supported the result is
\* allowed = false with the unsupported-version reason.
C3_DowngradeOfSupported ==
    (/\ op = "can_upgrade_directly"
     /\ IsVersion(args[1]) /\ IsVersion(args[2])
     /\ Lower(args[2], args[1]))
        => /\ Allowed = FALSE
           /\ IF Supported(args[1]) /\ Supported(args[2])
              THEN MentionsDowngrade
              ELSE UnsupportedReason

C3_Witness ==
    /\ DirectCheckOfSupported
    /\ Major(args[2]) < Major(args[1])
    /\ Minor(args[2]) > Minor(args[1])
    /\ Allowed = FALSE
    /\ MentionsDowngrade

\* C4: can_upgrade_directly rejects in a fixed precedence: a malformed version
\* string gives allowed = false with an invalid-format reason; otherwise a
\* version absent from the catalog gives allowed = false with an
\* unsupported-version reason; only for two well-formed, supported versions
\* is the reason one of the downgrade, same-version, consecutive,
\* skipped-version and cross-major rules.
C4_RejectPrecedence ==
    op = "can_upgrade_directly" =>
        IF ~IsVersion(args[1]) \/ ~IsVersion(args[2])
        THEN Allowed = FALSE /\ InvalidFormatReason
        ELSE IF ~Supported(args[1]) \/ ~Supported(args[2])
        THEN Allowed = FALSE /\ UnsupportedReason
        ELSE ReasonMsg \in {"Cannot downgrade EKS versions",
                            "Same version (no upgrade needed)",
                            "Direct upgrade supported",
                            "Cannot skip minor versions in EKS upgrade",
                            "Cannot upgrade across major versions"}

\* a well-formed source absent from the catalog and a malformed target: the
\* format is reported, not the missing catalog entry
C4_Witness ==
    /\ op = "can_upgrade_directly"
    /\ IsVersion(args[1])
    /\ ~Supported(args[1])
    /\ ~IsVersion(args[2])
    /\ Allowed = FALSE
    /\ InvalidFormatReason

\* C5: for supported versions v, w whose majors differ and where w is not
\* lower than v, can_upgrade_directly(v, w) returns allowed = false with a
\* cross-major reason, whatever the minors are; no pair with differing majors
\* is ever allowed.
C5_CrossMajorRejected ==
    /\ (/\ DirectCheckOfSupported
        /\ Major(args[1]) # Major(args[2])
        /\ ~Lower(args[2], args[1]))
           => (Allowed = FALSE /\ MentionsCrossMajor)
    /\ (/\ op = "can_upgrade_directly"
        /\ IsVersion(args[1]) /\ IsVersion(args[2])
        /\ Major(args[1]) # Major(args[2]))
           => Allowed = FALSE

C5_Witness ==
    /\ DirectCheckOfSupported
    /\ Major(args[1]) < Major(args[2])
    /\ Minor(args[1]) > Minor(args[2])
    /\ Allowed = FALSE
    /\ MentionsCrossMajor

----------------------------------------------------------------------------
(* _validate_version_format and _parse_version *)

\* a non-negative integer in plain decimal digits
PlainNatural(p) == Len(p) > 0 /\ \A i \in 1..Len(p) : IsDigit(p[i])

DotPlaces(s) == {k \in 1..Len(s) : s[k] = "."}

\* exactly two dot-separated non-negative integers
TwoNaturals(s) ==
    \E k \in DotPlaces(s) :
        /\ PlainNatural(SubSeq(s, 1, k - 1))
        /\ PlainNatural(SubSeq(s, k + 1, Len(s)))

\* the major of such a string is at least 1
MajorAtLeastOne(s) ==
    \E k \in DotPlaces(s) : \E i \in 1..(k - 1) : IsDigit(s[i]) /\ s[i] # "0"

\* empty, of another number of parts than two, or with a part that holds a
\* character other than a digit, a sign, a blank or an underscore, or no digit
WrongShape(s) ==
    \/ s = <<>>
    \/ Cardinality(DotPlaces(s)) # 1
    \/ \E i \in 1..Len(s) : ~IsDigit(s[i]) /\ s[i] \notin {".", "+", "-", " ", "_"}
    \/ \E k \in DotPlaces(s) :
          \/ \A i \in 1..(k - 1) : ~IsDigit(s[i])
          \/ \A i \in (k + 1)..Len(s) : ~IsDigit(s[i])

\* written as f"{major}.{minor}" writes it: no leading zero, sign, blank, underscore
Canonical(s) ==
    /\ TwoNaturals(s)
    /\ \A k \in DotPlaces(s) :
          /\ (s[1] = "0" => k = 2)
          /\ (s[k + 1] = "0" => k + 1 = Len(s))

----------------------------------------------------------------------------
(* generate_upgrade_path *)

\* the path returned by the generate_upgrade_path call in progress
Path == result.value

\* a generate_upgrade_path call on two well-formed versions has returned
PathOfVersions ==
    /\ op = "generate_upgrade_path"
    /\ IsVersion(args[1]) /\ IsVersion(args[2])

\* the strings major.(minor+1), ..., major.(minor+n)
NextMinors(major, minor, n) ==
    [i \in 1..n |-> FormatVersion(major, minor + i)]

\* each element after the first is on the major of the one before it, one
\* minor higher
StepsByOneMinor(path) ==
    \A i \in 1..(Len(path) - 1) :
        /\ IsVersion(path[i]) /\ IsVersion(path[i + 1])
        /\ Major(path[i + 1]) = Major(path[i])
        /\ Minor(path[i + 1]) = Minor(path[i]) + 1

\* C7 as stated: for well-formed versions on the same major with current
\* lower than target, the path is [current, major.(minor+1), ..., target], of
\* length target.minor - current.minor + 1, its last element the target string.
C7_PathEndsWithTargetString ==
    (/\ PathOfVersions
     /\ Major(args[1]) = Major(args[2])
     /\ Lower(args[1], args[2]))
        => /\ ~result.raised
           /\ Path = <<args[1]>> \o
                 NextMinors(Major(args[1]), Minor(args[1]),
                            Minor(args[2]) - Minor(args[1]))
           /\ Path[Len(Path)] = args[2]

\* C7 amended: for well-formed versions on the same major with current lower
\* than target, the path is exactly current followed by the canonical strings
\* major.(minor+1), ..., major.(target minor): one element per sequential
\* minor version, of length target.minor - current.minor + 1, its first
\* element the current string and its last element the target version, which
\* is the target string itself whenever the target is written canonically.
C7_PathEndsWithTargetVersion ==
    (/\ PathOfVersions
     /\ Major(args[1]) = Major(args[2])
     /\ Lower(args[1], args[2]))
        => /\ ~result.raised
           /\ Path = <<args[1]>> \o
                 NextMinors(Major(args[1]), Minor(args[1]),
                            Minor(args[2]) - Minor(args[1]))
           /\ Len(Path) = Minor(args[2]) - Minor(args[1]) + 1
           /\ Path[1] = args[1]
           /\ IsVersion(Path[Len(Path)])
           /\ Major(Path[Len(Path)]) = Major(args[2])
           /\ Minor(Path[Len(Path)]) = Minor(args[2])
           /\ Canonical(args[2]) => Path[Len(Path)] = args[2]

\* a path over the step from one-digit to two-digit minors
C7_Witness ==
    /\ PathOfVersions
    /\ Major(args[1]) = Major(args[2])
    /\ Minor(args[1]) < 9
    /\ Minor(args[2]) > 10
    /\ Len(Path) = Minor(args[2]) - Minor(args[1]) + 1
    /\ Path[Len(Path)] = args[2]

\* C8: for well-formed versions with current at or beyond target (equal
\* versions and a current on a higher major included), the path is the
\* single element [current] and nothing is raised.
C8_AlreadyThere ==
    (/\ PathOfVersions
     /\ ~Lower(args[1], args[2]))
        => (~result.raised /\ Path = <<args[1]>>)

\* current on a higher major with the lower minor
C8_Witness ==
    /\ PathOfVersions
    /\ Major(args[1]) > Major(args[2])
    /\ Minor(args[1]) < Minor(args[2])
    /\ Path = <<args[1]>>

----------------------------------------------------------------------------
(* determine_addon_upgrade_order *)

\* the ranks the ordering is specified by
Rank(name) ==
    CASE name = "vpc-cni" -> 1
      [] name = "kube-proxy" -> 2
      [] name = "coredns" -> 3
      [] name = "aws-ebs-csi-driver" -> 4
      [] OTHER -> 99

\* the list returned by the determine_addon_upgrade_order call in progress
Ordered == result.value

\* C10: for every input list, in every order of its records, the output
\* places vpc-cni before kube-proxy before coredns before aws-ebs-csi-driver
\* before every unranked addon (priorities 1, 2, 3, 4 and 99): it is sorted by
\* non-decreasing priority.
C10_OrderedByPriority ==
    op = "determine_addon_upgrade_order" =>
        /\ \A i \in 1..Len(Ordered) :
              Ordered[i].upgrade_priority = Rank(AddonName(Ordered[i]))
        /\ \A i, j \in 1..Len(Ordered) :
              i < j => Rank(AddonName(Ordered[i])) <= Rank(AddonName(Ordered[j]))

\* an input in the reverse of the upgrade order
C10_Witness ==
    /\ op = "determine_addon_upgrade_order"
    /\ Len(args[1]) = 3
    /\ AddonName(args[1][1]) = "metrics-server"
    /\ AddonName(args[1][2]) = "aws-ebs-csi-driver"
    /\ AddonName(args[1][3]) = "vpc-cni"
    /\ AddonName(Ordered[1]) = "vpc-cni"
    /\ AddonName(Ordered[3]) = "metrics-server"

\* an output record without the two keys the ordering adds
AsGiven(addon) ==
    [k \in DOMAIN addon \ {"upgrade_priority", "upgrade_timing"} |-> addon[k]]

\* the records of one rank, in the order of the list
OfRank(addons, p) ==
    SelectSeq(addons, LAMBDA addon : Rank(AddonName(addon)) = p)

Ranks == {1, 2, 3, 4, 99}

\* C11: the output is a stable sort of the input: it holds exactly the input
\* records (as many, none dropped, records of one name all kept), and the
\* records of one priority stand in their input order.
C11_StableSort ==
    op = "determine_addon_upgrade_order" =>
        /\ Len(Ordered) = Len(args[1])
        /\ \A p \in Ranks :
              OfRank([i \in 1..Len(Ordered) |-> AsGiven(Ordered[i])], p)
                  = OfRank(args[1], p)

\* two records of one name and two unranked records, each pair behind a
\* record that sorts in front of it; every record kept, each pair in input order
C11_Witness ==
    /\ op = "determine_addon_upgrade_order"
    /\ Len(args[1]) = 3
    /\ args[1][1] = [name |-> "coredns", version |-> "v2"]
    /\ args[1][2] = [name |-> "coredns", version |-> "v1"]
    /\ args[1][3] = [name |-> "vpc-cni", version |-> "v1"]
    /\ AsGiven(Ordered[1]) = args[1][3]
    /\ AsGiven(Ordered[2]) = args[1][1]
    /\ AsGiven(Ordered[3]) = args[1][2]

\* C12: an addon is tagged before_eks if and only if its priority is at most
\* 3 (vpc-cni, kube-proxy, coredns); aws-ebs-csi-driver and every unranked or
\* unnamed addon are tagged after_eks; in the output every before_eks addon
\* precedes every after_eks addon.
C12_TimingByPriority ==
    op = "determine_addon_upgrade_order" =>
        /\ \A i \in 1..Len(Ordered) :
              /\ Ordered[i].upgrade_timing \in {"before_eks", "after_eks"}
              /\ Ordered[i].upgrade_timing = "before_eks"
                    <=> Rank(AddonName(Ordered[i])) <= 3
              /\ Ordered[i].upgrade_timing = "before_eks"
                    <=> AddonName(Ordered[i]) \in {"vpc-cni", "kube-proxy", "coredns"}
        /\ \A i, j \in 1..Len(Ordered) :
              (/\ Ordered[i].upgrade_timing = "before_eks"
               /\ Ordered[j].upgrade_timing = "after_eks") => i < j

\* a nameless record and aws-ebs-csi-driver in front of coredns in the input
C12_Witness ==
    /\ op = "determine_addon_upgrade_order"
    /\ Len(args[1]) = 3
    /\ "name" \notin DOMAIN args[1][1]
    /\ AddonName(args[1][2]) = "aws-ebs-csi-driver"
    /\ AddonName(args[1][3]) = "coredns"
    /\ Ordered[1].upgrade_timing = "before_eks"
    /\ AddonName(Ordered[2]) = "aws-ebs-csi-driver"
    /\ Ordered[2].upgrade_timing = "after_eks"
    /\ "name" \notin DOMAIN Ordered[3]
    /\ Ordered[3].upgrade_timing = "after_eks"

----------------------------------------------------------------------------
(* create_upgrade_runbook *)

\* the phases of the runbook returned by the create_upgrade_runbook call in progress
Phases == result.value.phases

\* the input addons that go before the control plane, in priority order
BeforeEks(addons) == OfRank(addons, 1) \o OfRank(addons, 2) \o OfRank(addons, 3)

\* the input addons that go after the node groups, in priority order
AfterEks(addons) == OfRank(addons, 4) \o OfRank(addons, 99)

\* the addons a phase lists, by the name its steps show
Listed(phase) == [i \in 1..Len(phase.steps) |-> phase.steps[i][2]]

Shown(addons) == [i \in 1..Len(addons) |-> FormatName(addons[i])]

IsAddonStep(step) == Len(step) = 3 /\ step[1] = "Upgrade "

HasAddonStep(phase) == \E i \in 1..Len(phase.steps) : IsAddonStep(phase.steps[i])

\* C13: the phases come in the fixed order: pre-upgrade preparation; then, only
\* if there is one, a phase listing the before_eks addons in priority order;
\* then one control-plane phase per version step, len(path) - 1 of them, naming
\* path[1], path[2], ... in path order; then the node-group updates; then, only
\* if there is one, a phase listing the after_eks addons; then post-upgrade
\* validation. No before_eks addon step stands after a control-plane phase and
\* no after_eks addon step before the node-group phase.
C13_PhaseOrder ==
    op = "create_upgrade_runbook" =>
        LET path == args[2]
            before == BeforeEks(args[3])
            after == AfterEks(args[3])
            b == IF before # <<>> THEN 1 ELSE 0
            a == IF after # <<>> THEN 1 ELSE 0
            n == Len(path) - 1
        IN  /\ Len(Phases) = 1 + b + n + 1 + a + 1
            /\ Phases[1].phase = <<"Pre-Upgrade Preparation">>
            /\ b = 1 =>
                  /\ Phases[2].phase = <<"Critical Addon Updates (Pre-EKS)">>
                  /\ Listed(Phases[2]) = Shown(before)
            /\ \A k \in 1..n :
                  Phases[1 + b + k].phase = <<"EKS Control Plane Upgrade to ", path[k + 1]>>
            /\ Phases[2 + b + n].phase = <<"Node Group Updates">>
            /\ a = 1 =>
                  /\ Phases[3 + b + n].phase = <<"Additional Addon Updates (Post-EKS)">>
                  /\ Listed(Phases[3 + b + n]) = Shown(after)
            /\ Phases[Len(Phases)].phase = <<"Post-Upgrade Validation">>
            /\ \A i \in 1..Len(Phases) :
                  HasAddonStep(Phases[i]) =>
                      \/ b = 1 /\ i = 2
                      \/ a = 1 /\ i = 3 + b + n

\* two version steps, with coredns and vpc-cni in front of them and
\* metrics-server behind the node groups
C13_Witness ==
    /\ op = "create_upgrade_runbook"
    /\ args[2] = <<FormatVersion(1, 9), FormatVersion(1, 10), FormatVersion(1, 11)>>
    /\ Len(args[3]) = 3
    /\ AddonName(args[3][1]) = "metrics-server"
    /\ AddonName(args[3][2]) = "coredns"
    /\ AddonName(args[3][3]) = "vpc-cni"
    /\ Len(Phases) = 7
    /\ Listed(Phases[2]) = <<"vpc-cni", "coredns">>
    /\ Phases[3].phase = <<"EKS Control Plane Upgrade to ", FormatVersion(1, 10)>>
    /\ Phases[4].phase = <<"EKS Control Plane Upgrade to ", FormatVersion(1, 11)>>
    /\ Phases[5].phase = <<"Node Group Updates">>
    /\ Listed(Phases[6]) = <<"metrics-server">>

----------------------------------------------------------------------------
(* perform_comprehensive_assessment *)

\* the assessment returned by the call in progress
Assessment == result.value.comprehensive_risk

Factors == Assessment.individual_assessments

FactorNames ==
    {"deprecated_apis", "breaking_changes", "addon_compatibility",
     "version_jumps", "cluster_size"}

\* the order LOW < MEDIUM < HIGH < CRITICAL
Score(level) ==
    CASE level = "LOW" -> 1
      [] level = "MEDIUM" -> 2
      [] level = "HIGH" -> 3
      [] level = "CRITICAL" -> 4

\* C14: the overall risk is the maximum, under LOW < MEDIUM < HIGH < CRITICAL,
\* of the five per-factor levels: never lower than a factor, and the level of
\* at least one of them.
C14_OverallIsMaximum ==
    op = "perform_comprehensive_assessment" =>
        /\ DOMAIN Factors = FactorNames
        /\ \A f \in FactorNames :
              Score(Factors[f].risk_level) <= Score(Assessment.overall_risk)
        /\ \E f \in FactorNames :
              Factors[f].risk_level = Assessment.overall_risk

\* one CRITICAL factor and four LOW ones
C14_Witness ==
    /\ op = "perform_comprehensive_assessment"
    /\ Factors.deprecated_apis.risk_level = "CRITICAL"
    /\ \A f \in FactorNames \ {"deprecated_apis"} : Factors[f].risk_level = "LOW"
    /\ Assessment.overall_risk = "CRITICAL"

\* the scenario of C15: 1.27 to 1.30, nothing found, one node group of 5
Scenario ==
    /\ op = "perform_comprehensive_assessment"
    /\ args[1] = <<"1", ".", "2", "7">>
    /\ args[2] = <<"1", ".", "3", "0">>
    /\ DOMAIN args[3] = {}
    /\ args[4] = <<>>
    /\ \A i \in 1..Len(args[5]) : args[5][i].is_compatible
    /\ Len(args[6]) = 1
    /\ Get(Get(args[6][1], "scaling_config", EmptyDict), "desiredSize", 0) = 5

\* C15: for a cluster on "1.27" with target "1.30", no deprecated-API findings,
\* no breaking changes, all addons compatible and one node group of 5 desired
\* nodes, the path has 4 elements, the version-jump factor is HIGH with 3
\* jumps, the overall risk is HIGH and rollback_required is true.
C15_Scenario ==
    Scenario =>
        /\ Len(result.value.upgrade_path) = 4
        /\ Factors.version_jumps.risk_level = "HIGH"
        /\ Factors.version_jumps.version_jumps = 3
        /\ Assessment.overall_risk = "HIGH"
        /\ Assessment.rollback_required = TRUE

\* the scenario, with one compatible addon, assessed
C15_Witness ==
    /\ Scenario
    /\ Len(args[5]) = 1
    /\ result.value.upgrade_path =
           <<FormatVersion(1, 27), FormatVersion(1, 28),
             FormatVersion(1, 29), FormatVersion(1, 30)>>
    /\ Assessment.overall_risk = "HIGH"

----------------------------------------------------------------------------
(* assess_deprecated_api_risk *)

\* the resources of the findings, as (API, index) pairs
FoundIn(findings) ==
    UNION {{<<api, i>> : i \in 1..Len(findings[api])} : api \in DOMAIN findings}

\* the removal version a found resource carries, <<>> if none
RemovedIn(resource) ==
    Get(Get(resource, "deprecation_info", EmptyDict), "removed_in", <<>>)

\* removed is at or before target in (major, minor) order
AtOrBefore(removed, target) ==
    /\ IsVersion(removed)
    /\ IsVersion(target)
    /\ ~Lower(target, removed)

\* some found API is removed at the target version
RemovedAtTarget(findings, target) ==
    \E pair \in FoundIn(findings) :
        AtOrBefore(RemovedIn(findings[pair[1]][pair[2]]), target)

TotalFound(findings) == Cardinality(FoundIn(findings))

\* C16: the deprecated-API risk factor is CRITICAL if and only if at least one
\* found API is removed at the target version (its removal version is at or
\* before the target); otherwise more than 10 deprecated resources give HIGH,
\* more than 5 MEDIUM, and 0 to 5 LOW. Findings removed only after the target
\* never yield CRITICAL.
C16_CriticalIffRemovedAtTarget ==
    op = "perform_comprehensive_assessment" =>
        LET level == Factors.deprecated_apis.risk_level
            total == TotalFound(args[3])
        IN  IF RemovedAtTarget(args[3], args[2]) THEN level = "CRITICAL"
            ELSE IF total > 10 THEN level = "HIGH"
            ELSE IF total > 5 THEN level = "MEDIUM"
            ELSE level = "LOW"

----------------------------------------------------------------------------
(* detect_migration_requirements and is_api_removed *)

\* the migrations returned by the detect_migration_requirements call in progress
Migrations == result.value.migrations

\* the resource of the findings is among the migrations, with priority CRITICAL
Migrated(api_version, resource) ==
    \E m \in 1..Len(Migrations) :
        /\ Migrations[m].current_api = api_version
        /\ Migrations[m].resource_name = resource.name
        /\ Migrations[m].priority = "CRITICAL"

\* C17: a resource is appended to migrations (priority CRITICAL) if and only
\* if the target version is at or past the API's removed-in version under
\* ordered (major, minor) integer comparison, for all version pairs, those
\* whose minor numbers differ in digit count included; a resource with no
\* removed-in version is never a migration.
C17_MigratedIffRemovalReached ==
    op = "detect_migration_requirements" =>
        \A k \in 1..Len(args[1]) : \A i \in 1..Len(args[1][k][2]) :
            LET api_version == args[1][k][1]
                resource == args[1][k][2][i]
            IN  Migrated(api_version, resource)
                    <=> /\ RemovedIn(resource) # <<>>
                        /\ AtOrBefore(RemovedIn(resource), args[2])

\* the removed-in version of a catalogued API
CatalogRemovedIn(api_version) == API_DEPRECATIONS[api_version].removed_in

\* C18: is_api_removed(api, version) is true if and only if the API is in the
\* deprecation catalog and version is at or after its removed-in version in
\* Kubernetes version order; it is false for APIs not in the catalog.
C18_RemovedIffAtOrAfter ==
    op = "is_api_removed" =>
        (result.value
            <=> /\ args[1] \in DOMAIN API_DEPRECATIONS
                /\ AtOrBefore(CatalogRemovedIn(args[1]), args[2]))

----------------------------------------------------------------------------
(* check_addon_compatibility and validate_upgrade_path *)

\* the addon data has an entry for the addon under the EKS version
HasEntry(addon_name, eks_version) ==
    /\ "addons" \in DOMAIN addon_data
    /\ addon_name \in DOMAIN addon_data.addons
    /\ "versions" \in DOMAIN addon_data.addons[addon_name]
    /\ eks_version \in DOMAIN addon_data.addons[addon_name].versions

\* a field of that entry, the empty string if the entry has none
EntryField(addon_name, eks_version, field) ==
    Get(addon_data.addons[addon_name].versions[eks_version], field, <<>>)

\* a occurs in b: b is a, with something in front and something behind
OccursIn(a, b) ==
    \E i \in 0..Len(b) : \E j \in i..Len(b) :
        SubSeq(b, 1, i) \o a \o SubSeq(b, j + 1, Len(b)) = b

\* the current version occurs in the entry's minimum or recommended version
CompatibleByCatalog(addon_name, addon_version, eks_version) ==
    /\ HasEntry(addon_name, eks_version)
    /\ \/ OccursIn(addon_version, EntryField(addon_name, eks_version, "minimum"))
       \/ OccursIn(addon_version, EntryField(addon_name, eks_version, "recommended"))

\* C19: check_addon_compatibility(addon, current, target) returns (false,
\* null) when the catalog has no entry for the target version or for the addon
\* under it; otherwise compatible is true exactly when current occurs as a
\* substring of the catalog's minimum or recommended version, and the returned
\* recommended version is the catalog's recommended field.
C19_CompatibleIffSubstring ==
    op = "check_addon_compatibility" =>
        IF ~HasEntry(args[1], args[3])
        THEN result.value = <<FALSE, None>>
        ELSE /\ result.value[1] = CompatibleByCatalog(args[1], args[2], args[3])
             /\ result.value[2] = EntryField(args[1], args[3], "recommended")

\* a current version equal to the catalog minimum, which is compatible
C19_Witness ==
    /\ op = "check_addon_compatibility"
    /\ HasEntry(args[1], args[3])
    /\ args[1] = "coredns"
    /\ args[3] = FormatVersion(1, 11)
    /\ EntryField(args[1], args[3], "minimum") = <<"v", "1", ".", "9">>
    /\ EntryField(args[1], args[3], "recommended") = <<"v", "1", ".", "1", "0">>
    /\ args[2] = <<"v", "1", ".", "9">>
    /\ result.value = <<TRUE, <<"v", "1", ".", "1", "0">>>>

\* the validation returned by the validate_upgrade_path call in progress
Validation == result.value

Issues == Validation.blocking_issues

IssuesOfType(type) == SelectSeq(Issues, LAMBDA issue : issue.type = type)

\* can_upgrade_directly rejects the validated pair
Rejected == ~can_upgrade_directly(EKS_K8S_VERSIONS, args[1], args[2])[1]

\* the addon needs action: it is not compatible with the target by the catalog
NeedsAction(addon) ==
    ~CompatibleByCatalog(Get(addon, "name", "None"), Get(addon, "version", <<>>), args[2])

\* C20: validate_upgrade_path never short-circuits: the per-addon pass runs
\* whether or not the version check fails; blocking_issues holds a
\* version_incompatibility entry if and only if can_upgrade_directly rejects
\* the pair, and an addon_compatibility entry, listing exactly the addons with
\* action_required, if and only if at least one addon needs action; both when
\* both fail; and the list is empty exactly when can_upgrade and
\* addons_compatible are true.
C20_AllIssuesReported ==
    op = "validate_upgrade_path" =>
        LET recs == Validation.addon_recommendations
            needing == SelectSeq(recs, LAMBDA rec : rec.action_required)
        IN  /\ Len(recs) = Len(args[3])
            /\ \A i \in 1..Len(recs) :
                  /\ recs[i].addon_name = Get(args[3][i], "name", "None")
                  /\ recs[i].action_required = NeedsAction(args[3][i])
            /\ Validation.can_upgrade = ~Rejected
            /\ Validation.addons_compatible = (needing = <<>>)
            /\ Len(IssuesOfType("version_incompatibility")) = (IF Rejected THEN 1 ELSE 0)
            /\ Len(IssuesOfType("addon_compatibility")) = (IF needing # <<>> THEN 1 ELSE 0)
            /\ \A k \in 1..Len(Issues) :
                  /\ Issues[k].type \in {"version_incompatibility", "addon_compatibility"}
                  /\ Issues[k].type = "addon_compatibility" => Issues[k].addons = needing
            /\ Issues = <<>> <=> (Validation.can_upgrade /\ Validation.addons_compatible)

\* a skipped minor version and an addon too old for the target: both reported
C20_Witness ==
    /\ op = "validate_upgrade_path"
    /\ args[1] = FormatVersion(1, 9)
    /\ args[2] = FormatVersion(1, 11)
    /\ Len(args[3]) = 2
    /\ args[3][1] = [name |-> "coredns", version |-> <<"v", "1", ".", "8">>]
    /\ args[3][2] = [name |-> "coredns", version |-> <<"v", "1", ".", "1", "0">>]
    /\ HasEntry("coredns", args[2])
    /\ EntryField("coredns", args[2], "recommended") = <<"v", "1", ".", "1", "0">>
    /\ Rejected
    /\ Len(Issues) = 2
    /\ Issues[1].type = "version_incompatibility"
    /\ Issues[2].type = "addon_compatibility"
    /\ Len(Issues[2].addons) = 1
    /\ Issues[2].addons[1].current_version = <<"v", "1", ".", "8">>

----------------------------------------------------------------------------
(* assess_version_jump_risk *)

\* the jumps of the assessed path
Jumps == Len(result.value.upgrade_path) - 1

\* C21: the version-jump factor depends only on the number of jumps,
\* len(path) - 1: 0 or 1 jump gives LOW, exactly 2 jumps MEDIUM, more than 2
\* HIGH; the reported version_jumps is len(path) - 1.
C21_JumpRiskByCount ==
    op = "perform_comprehensive_assessment" =>
        /\ Factors.version_jumps.version_jumps = Jumps
        /\ Factors.version_jumps.risk_level =
               (IF Jumps \in {0, 1} THEN "LOW"
                ELSE IF Jumps = 2 THEN "MEDIUM"
                ELSE "HIGH")

\* two jumps rated MEDIUM beside a CRITICAL deprecated-API factor
C21_Witness ==
    /\ op = "perform_comprehensive_assessment"
    /\ Jumps = 2
    /\ result.value.upgrade_path[1] = FormatVersion(1, 27)
    /\ Factors.version_jumps.risk_level = "MEDIUM"
    /\ Factors.version_jumps.version_jumps = 2
    /\ Factors.deprecated_apis.risk_level = "CRITICAL"

----------------------------------------------------------------------------
(* _estimate_downtime *)

\* the desired nodes of the assessed node groups, a group without a desired
\* size counting as none
DesiredNodes ==
    Sum([i \in 1..Len(args[6]) |->
            IF "scaling_config" \in DOMAIN args[6][i]
               /\ "desiredSize" \in DOMAIN args[6][i].scaling_config
            THEN args[6][i].scaling_config.desiredSize ELSE 0])

\* C22: minimum_minutes is 15, plus 30 if the overall risk of the same
\* assessment is HIGH or CRITICAL, plus 15 per version jump if there is more
\* than one jump, plus 30 if more than 50 nodes are desired in total; it is
\* never below 15.
C22_DowntimeFormula ==
    op = "perform_comprehensive_assessment" =>
        /\ Assessment.estimated_downtime.minimum_minutes =
               15
               + (IF Assessment.overall_risk \in {"HIGH", "CRITICAL"} THEN 30 ELSE 0)
               + (IF Jumps > 1 THEN 15 * Jumps ELSE 0)
               + (IF DesiredNodes > 50 THEN 30 ELSE 0)
        /\ Assessment.estimated_downtime.minimum_minutes >= 15

\* every term present: a HIGH overall risk, three jumps and 101 nodes
C22_Witness ==
    /\ op = "perform_comprehensive_assessment"
    /\ Assessment.overall_risk = "HIGH"
    /\ Jumps = 3
    /\ DesiredNodes = 101
    /\ Assessment.estimated_downtime.minimum_minutes = 120

\* no term present: the base of 15 minutes alone
C22_WitnessBase ==
    /\ op = "perform_comprehensive_assessment"
    /\ Assessment.overall_risk = "LOW"
    /\ Jumps = 1
    /\ DesiredNodes = 5
    /\ Assessment.estimated_downtime.minimum_minutes = 15

----------------------------------------------------------------------------
(* estimate_upgrade_time *)

\* C23: total_minutes is 120 + 40 x (len(path) - 1) + 90 x (number of node
\* groups) + 10 x (number of addons) + 45, for every non-empty path and every
\* node-group and addon list.
C23_TotalMinutes ==
    op = "estimate_upgrade_time" =>
        result.value.total_minutes =
            120 + 40 * (Len(args[1]) - 1) + 90 * Len(args[2]) + 10 * Len(args[3]) + 45

\* two version steps, two node groups and two addons: 445 minutes
C23_Witness ==
    /\ op = "estimate_upgrade_time"
    /\ Len(args[1]) = 3
    /\ Len(args[2]) = 2
    /\ Len(args[3]) = 2
    /\ result.value.total_minutes = 445

----------------------------------------------------------------------------
(* identify_manual_intervention_points *)

HighImpact(change) == Get(change, "impact", "None") = "HIGH"

\* C24: identify_manual_intervention_points returns, in this order, one
\* aggregate api_migration entry exactly when the migration list is non-empty
\* (estimated at 5 minutes for each migration), one breaking_change entry for
\* each breaking change of impact HIGH in input order, and always exactly one
\* crd_validation entry, the last; its length is (1 if migrations else 0) +
\* (number of HIGH changes) + 1.
C24_InterventionPoints ==
    op = "identify_manual_intervention_points" =>
        LET points == result.value
            migrations == args[1]
            high == SelectSeq(args[2], HighImpact)
            k == IF migrations # <<>> THEN 1 ELSE 0
            OfType(t) == {i \in 1..Len(points) : points[i].type = t}
        IN  /\ Len(points) = k + Len(high) + 1
            /\ OfType("api_migration") = 1..k
            /\ k = 1 => points[1].estimated_time = <<5 * Len(migrations), " minutes">>
            /\ OfType("breaking_change") = (k + 1)..(k + Len(high))
            /\ \A i \in 1..Len(high) :
                   /\ points[k + i].description = Get(high[i], "title", "None")
                   /\ points[k + i].priority = "HIGH"
            /\ OfType("crd_validation") = {Len(points)}

\* two migrations, and the HIGH changes b and a around one of MEDIUM impact
C24_Witness ==
    /\ op = "identify_manual_intervention_points"
    /\ Len(args[1]) = 2
    /\ Len(args[2]) = 2
    /\ args[2][1].title = "b"
    /\ args[2][2].title = "a"
    /\ Len(result.value) = 4
    /\ result.value[2].description = "b"
    /\ result.value[1].estimated_time = <<10, " minutes">>

\* no migration and no change of HIGH impact: the CRD entry alone
C24_WitnessCrdOnly ==
    /\ op = "identify_manual_intervention_points"
    /\ args[1] = <<>>
    /\ Len(args[2]) = 2
    /\ Len(result.value) = 1

----------------------------------------------------------------------------
(* generate_upgrade_path on malformed strings *)

\* a string with a wrong number of dot-separated parts (the empty string has
\* one part) or with a part that int() does not read
MalformedString(s) ==
    LET parts == Split(s)
    IN  Len(parts) # 2 \/ ~IntParses(parts[1]) \/ ~IntParses(parts[2])

\* C27: generate_upgrade_path is total over version strings: for a malformed
\* current or target string (wrong number of dot-separated parts, non-numeric
\* parts, the empty string) it returns the single-element path [current] as a
\* value, and it never raises.
C27_TotalOnMalformed ==
    op = "generate_upgrade_path" =>
        /\ ~result.raised
        /\ (MalformedString(args[1]) \/ MalformedString(args[2]))
               => Path = <<args[1]>>

\* a canonical current version and a target with a non-numeric minor
C27_Witness ==
    /\ op = "generate_upgrade_path"
    /\ Canonical(args[1])
    /\ args[2] = <<"1", ".", "x">>
    /\ ~result.raised
    /\ Path = <<args[1]>>

\* the empty current string comes back as the only element
C27_WitnessEmpty ==
    /\ op = "generate_upgrade_path"
    /\ args[1] = <<>>
    /\ Canonical(args[2])
    /\ Path = << <<>> >>

----------------------------------------------------------------------------
(* The validator against the planner *)

\* the path the planner generates for the versions of the call in progress
PlannedPath == generate_upgrade_path(args[1], args[2])

\* every element of the path is in the catalog
AllSupported(path) == \A i \in 1..Len(path) : Supported(path[i])

\* C28: validator and planner agree: for all catalog-supported versions v, w,
\* can_upgrade_directly(v, w) allows the upgrade if and only if
\* generate_upgrade_path(v, w) has at most 2 elements and w is not lower than
\* v; whenever the generated path has more than 2 elements the validator
\* rejects; and every consecutive pair of a generated path whose elements are
\* all supported is accepted by can_upgrade_directly.
C28_ValidatorAgreesWithPlanner ==
    (/\ op = "can_upgrade_directly"
     /\ IsVersion(args[1]) /\ IsVersion(args[2])
     /\ Supported(args[1]) /\ Supported(args[2]))
        => /\ Allowed <=> (Len(PlannedPath) <= 2 /\ ~Lower(args[2], args[1]))
           /\ Len(PlannedPath) > 2 => ~Allowed
           /\ AllSupported(PlannedPath) =>
                  \A i \in 1..(Len(PlannedPath) - 1) :
                      can_upgrade_directly(EKS_K8S_VERSIONS, PlannedPath[i],
                                           PlannedPath[i + 1])[1]

----------------------------------------------------------------------------
(* Addons without a version *)

\* C29: an addon whose current version is empty or missing is never reported
\* compatible: check_addon_compatibility with an empty version string returns
\* compatible = false whatever the catalog entry, and get_addon_recommendations
\* marks a record without a version field action_required = true.
C29_NoVersionNeverCompatible ==
    /\ (op = "check_addon_compatibility" /\ args[2] = <<>>) => ~result.value[1]
    /\ op = "validate_upgrade_path" =>
           \A i \in 1..Len(args[3]) :
               "version" \notin DOMAIN args[3][i] =>
                   /\ ~Validation.addon_recommendations[i].is_compatible
                   /\ Validation.addon_recommendations[i].action_required

----------------------------------------------------------------------------
(* The plan command: repeated and interleaved calls *)

\* the core operations of plan generation
CoreOperations ==
    {"generate_upgrade_path", "determine_addon_upgrade_order",
     "create_upgrade_runbook", "estimate_upgrade_time",
     "perform_comprehensive_assessment", "generate_migration_plan"}

NamelessAddon ==
    \E i \in 1..Len(plan_inputs.addons) : "name" \notin DOMAIN plan_inputs.addons[i]

\* a node group without a scaling configuration or without a desired size
GroupWithoutSize ==
    \E i \in 1..Len(plan_inputs.node_groups) :
        \/ "scaling_config" \notin DOMAIN plan_inputs.node_groups[i]
        \/ "desiredSize" \notin DOMAIN plan_inputs.node_groups[i].scaling_config

\* a finding without a name, a kind or a namespace
IncompleteFinding ==
    \E k \in 1..Len(plan_inputs.deprecated_apis) :
        \E i \in 1..Len(plan_inputs.deprecated_apis[k][2]) :
            {"name", "kind", "namespace"}
                \ DOMAIN plan_inputs.deprecated_apis[k][2][i] # {}

\* C26: a structurally invalid input (an addon record without a name, a node
\* group without a scaling configuration or desired size, a finding without
\* name, kind or namespace) is reported to the caller as an explicit failure:
\* the planner, the risk engine and the migration planner return no result
\* for it.
C26_InvalidInputFails ==
    /\ (/\ op \in {"determine_addon_upgrade_order", "create_upgrade_runbook"}
        /\ NamelessAddon) => result.raised
    /\ (op = "perform_comprehensive_assessment" /\ GroupWithoutSize) => result.raised
    /\ (op = "generate_migration_plan" /\ IncompleteFinding) => result.raised

====
